---- MODULE Spec2Model ----
(***************************************************************************)
(* Model of ledger-lib's provider: LedgerProvider / LedgerHandle           *)
(* (src/lib/src/provider/mod.rs) and the pinned provider task              *)
(* ProviderContext / ProviderImpl (src/lib/src/provider/context.rs).       *)
(***************************************************************************)
EXTENDS Integers, Sequences, FiniteSets, TLC

\* ------------------------------------------------------------------ bounds
\* Requests that may be enqueued on the request channel in one behaviour.
MaxReqs == 4
\* Requests that may sit in the (unbounded) request channel at once.
MaxQueue == 2
\* Width of the index counter, scaled down: device_index is a usize and
\* wrapping_add wraps at 2^64; the model wraps at IndexModulus.
IndexModulus == 2

\* Caller tasks, connection identities (LedgerInfo.conn) and APDU payloads.
Callers == {"t1", "t2"}
Conns == {"cA", "cB"}
Apdus == {"apdu1"}

NoConn == "none"
NoIndex == -1
NoCaller == "norx"
NoApdu == "none"
Indices == 0 .. (IndexModulus - 1)

\* ------------------------------------------------------------- data types
\* LedgerReq (provider/mod.rs:35-47), one record shape for all variants.
ReqList == [type |-> "List", conn |-> NoConn, index |-> NoIndex, apdu |-> NoApdu]
ReqConnect(conn) == [type |-> "Connect", conn |-> conn, index |-> NoIndex, apdu |-> NoApdu]
ReqReq(index, apdu) == [type |-> "Req", conn |-> NoConn, index |-> index, apdu |-> apdu]
ReqClose(index) == [type |-> "Close", conn |-> NoConn, index |-> index, apdu |-> NoApdu]

\* LedgerResp (provider/mod.rs:51-63), one record shape for all variants;
\* NoResp stands for handle_req returning None.
NoResp == [kind |-> "None", err |-> "none", index |-> NoIndex, conn |-> NoConn, apdu |-> NoApdu]
RespDevices == [kind |-> "Devices", err |-> "none", index |-> NoIndex, conn |-> NoConn, apdu |-> NoApdu]
RespHandle(index) == [kind |-> "Handle", err |-> "none", index |-> index, conn |-> NoConn, apdu |-> NoApdu]
RespResp(conn, apdu) == [kind |-> "Resp", err |-> "none", index |-> NoIndex, conn |-> conn, apdu |-> apdu]
RespError(e) == [kind |-> "Error", err |-> e, index |-> NoIndex, conn |-> NoConn, apdu |-> NoApdu]

\* The message put on the request channel: (LedgerReq, UnboundedSender<LedgerResp>)
\* tagged with its arrival ticket.  tx names the caller holding the receiving
\* end, or NoCaller when the receiving end is already dropped (Drop, mod.rs:155).
Msg(id, req, tx) == [id |-> id, req |-> req, tx |-> tx]
NoReq == [type |-> "None", conn |-> NoConn, index |-> NoIndex, apdu |-> NoApdu]
NoMsg == Msg(0, NoReq, NoCaller)

\* Per-call reply channel as seen by the caller: st is "idle" (no call),
\* "pending" (sender alive, nothing sent), "closed" (sender dropped);
\* n counts the responses sent on it, msg is the first of them.
RxIdle == [st |-> "idle", n |-> 0, msg |-> NoResp]
RxPending == [st |-> "pending", n |-> 0, msg |-> NoResp]

\* The step logs: what the request handled in the step just taken did, and
\* what the call that returned in the step just taken returned.
NoLast == [msg |-> NoMsg, resp |-> NoResp, ops |-> <<>>]
NoResult == [caller |-> NoCaller, kind |-> "none", waited |-> FALSE, val |-> NoResp]

VARIABLES
    cell,          \* PROVIDER_CTX OnceCell: "unset", "busy" (initialiser running), "set"
    threads,       \* provider threads spawned by ProviderContext::new
    chans,         \* request channels created by ProviderContext::new
    tables,        \* handle tables created by ProviderImpl::new
    task,          \* provider task: "none", "starting", "running", "failed"
    queue,         \* request channel contents
    cur,           \* message the provider task is handling, or NoMsg
    devices,       \* ProviderImpl.devices: index -> [info, link]
    device_index,  \* ProviderImpl.device_index
    cpc,           \* per caller: "new", "initing", "ready", "waiting"
    prov,          \* per caller: request channel its LedgerProvider sends to (0 = none)
    held,          \* per caller: index of the LedgerHandle it holds, or NoIndex
    rx,            \* per caller: reply channel of its call in flight
    result,        \* what the call that returned in the last step returned, and to whom
    nextId,        \* arrival ticket of the next request enqueued
    recvd,         \* requests received by the provider task so far
    last           \* what handle_req did in the last step (NoLast after any other step)

\* launch_app (src/lib/src/lib.rs:128-206) and reconnect (lib.rs:229-275)
VARIABLES
    lpc,           \* position in launch_app: "idle", "connect", "app_info", "exit",
                   \* "reconnect", "reconnect_connect", "run", "done"
    args,          \* arguments of the call: info, app_name, opts.reconnect_timeout_s
    dev,           \* launch_app's device handle d, or NoHandle
    opened,        \* handles connected and not yet dropped
    issued,        \* operations issued on the transport and the device so far
    attempt,       \* i of the run loop
    rc,            \* activation of reconnect: caller, i of the scan loop, new_info
    ret,           \* what launch_app returned
    llast          \* the operation issued in the last step and what it yielded

\* The codec (src/proto/src) and Device::request (src/lib/src/device.rs)
VARIABLES
    job,           \* the codec operation applied and its inputs
    out            \* what it returned

\* The BLE transport (src/lib/src/transport/ble.rs)
VARIABLES
    ble            \* the BleTransport, the BleDevice it handed out and the
                   \* subscription of that device's peripheral

cvars == <<job, out, ble>>

pvars == <<cell, threads, chans, tables, task, queue, cur, devices, device_index,
           cpc, prov, held, rx, result, nextId, recvd, last>>

lvars == <<lpc, args, dev, opened, issued, attempt, rc, ret, llast>>

vars == <<cell, threads, chans, tables, task, queue, cur, devices, device_index,
          cpc, prov, held, rx, result, nextId, recvd, last,
          lpc, args, dev, opened, issued, attempt, rc, ret, llast, job, out, ble>>

\* ------------------------------------------------------- transport layer
\* A GenericDevice in the table: its connection info (GenericDevice::info)
\* and the state of its physical link, which the environment changes.
NoDev == [info |-> NoConn, link |-> "none"]
Dev(conn) == [info |-> conn, link |-> "up"]

\* Outcomes the transports can produce (the error names are Error variants).
ConnectOutcomes == {"ok", "Tcp"}
ExchangeOutcomes == {"ok", "Timeout", "Tcp"}
ListOutcomes == {"ok", "Ble"}

\* One entry of the log of what handle_req did: a transport call with its
\* result, or a change of the table.
Ev(op, conn, apdu, res) == [op |-> op, conn |-> conn, apdu |-> apdu, res |-> res]

\* Mutant of is_connected: every handle is reported as no longer connected.
is_connected_never(d) == "false"

\* GenericDevice::is_connected: Ok(true), Ok(false) or Err.
is_connected(d) ==
    IF d.link = "up" THEN "true" ELSE IF d.link = "down" THEN "false" ELSE "err"

\* GenericTransport::connect: the device it returns carries the requested info.
transport_connect(conn, outcome) ==
    IF outcome = "ok" THEN [ok |-> TRUE, dev |-> Dev(conn), err |-> "none"]
    ELSE [ok |-> FALSE, dev |-> NoDev, err |-> outcome]

\* GenericDevice::exchange: Ok(bytes) or Err(e); the bytes are tagged with the
\* device and command that produced them.
device_exchange(d, apdu, outcome) ==
    IF outcome = "ok" THEN RespResp(d.info, apdu) ELSE RespError(outcome)

\* GenericTransport::list: Ok(devices) or Err(e).
transport_list(outcome) ==
    IF outcome = "ok" THEN RespDevices ELSE RespError(outcome)

\* ----------------------------------------------------------- handle table
Has(devs, k) == k \in DOMAIN devs /\ devs[k] # NoDev
Keys(devs) == {k \in DOMAIN devs : devs[k] # NoDev}
Remove(devs, k) == [j \in DOMAIN devs |-> IF j = k THEN NoDev ELSE devs[j]]
Insert(devs, k, d) == [j \in DOMAIN devs |-> IF j = k THEN d ELSE devs[j]]
EmptyTable == [k \in Indices |-> NoDev]

\* Mutant of Matching: the search for an existing handle finds nothing.
Matching_none(devs, conn) == {}

\* self.devices.iter().find(|(_k, v)| v.info() == info.conn): the entries the
\* search can return (HashMap iteration order is unspecified).
Matching(devs, conn) == {k \in Keys(devs) : devs[k].info = conn}

\* self.device_index.wrapping_add(1)
wrapping_add(idx) == (idx + 1) % IndexModulus

\* -------------------------------------------------------------- handle_req
Out(resp, devs, idx, ops) ==
    [resp |-> resp, devices |-> devs, device_index |-> idx, ops |-> ops]

\* LedgerReq::List
handle_list(devs, idx, outcome) ==
    LET r == transport_list(outcome)
    IN Out(r, devs, idx, <<Ev("list", NoConn, NoApdu, r)>>)

\* Mutant of handle_connect: the index is taken before the transport's
\* connect, so a connect that fails uses one up.
handle_connect_burn(devs, idx, conn, found, outcome) ==
    LET c == IF found # NoIndex
             THEN (IF devs[found].link = "up" THEN "true" ELSE "other") ELSE "none"
        devs1 == IF found # NoIndex THEN Remove(devs, found) ELSE devs
        ok == outcome = "ok"
    IN IF c = "true"
       THEN Out(RespError("DeviceInUse"), devs, idx, <<>>)
       ELSE IF ~ok
       THEN Out(RespError(outcome), devs1, wrapping_add(idx), <<>>)
       ELSE Out(RespHandle(idx), Insert(devs1, idx, Dev(conn)), wrapping_add(idx), <<>>)

\* LedgerReq::Connect; found is the entry the search returned, or NoIndex.
handle_connect(devs, idx, conn, found, outcome) ==
    LET c == IF found # NoIndex THEN is_connected(devs[found]) ELSE "none"
        checked == IF found # NoIndex
                   THEN <<Ev("is_connected", conn, NoApdu, NoResp)>> ELSE <<>>
        devs1 == IF found # NoIndex THEN Remove(devs, found) ELSE devs
        ops1 == IF found # NoIndex
                THEN checked \o <<Ev("remove", conn, NoApdu, NoResp)>> ELSE <<>>
        r == transport_connect(conn, outcome)
        called == <<Ev("connect", conn, NoApdu,
                       IF r.ok THEN NoResp ELSE RespError(r.err))>>
    IN IF c = "true"
       THEN Out(RespError("DeviceInUse"), devs, idx, checked)
       ELSE IF ~r.ok
       THEN Out(RespError(r.err), devs1, idx, ops1 \o called)
       ELSE Out(RespHandle(idx), Insert(devs1, idx, r.dev), wrapping_add(idx),
                ops1 \o called \o <<Ev("insert", conn, NoApdu, RespHandle(idx))>>)

\* Mutant of handle_exchange: an error of the device's exchange is answered
\* with Error::Unknown instead of being passed on.
handle_exchange_swallow(devs, idx, index, apdu, outcome) ==
    IF ~Has(devs, index)
    THEN Out(RespError("Unknown"), devs, idx, <<>>)
    ELSE LET r == device_exchange(devs[index], apdu, outcome)
         IN Out(IF r.kind = "Error" THEN RespError("Unknown") ELSE r, devs, idx,
                <<Ev("exchange", devs[index].info, apdu, r)>>)

\* Mutant of handle_exchange: a handle whose exchange timed out is taken out
\* of the table.
handle_exchange_evict(devs, idx, index, apdu, outcome) ==
    IF ~Has(devs, index)
    THEN Out(RespError("Unknown"), devs, idx, <<>>)
    ELSE LET r == device_exchange(devs[index], apdu, outcome)
         IN Out(r, IF outcome = "Timeout" THEN Remove(devs, index) ELSE devs, idx,
                <<Ev("exchange", devs[index].info, apdu, r)>>)

\* LedgerReq::Req
handle_exchange(devs, idx, index, apdu, outcome) ==
    IF ~Has(devs, index)
    THEN Out(RespError("Unknown"), devs, idx, <<>>)
    ELSE LET r == device_exchange(devs[index], apdu, outcome)
         IN Out(r, devs, idx, <<Ev("exchange", devs[index].info, apdu, r)>>)

\* Mutant of handle_close: a Close for an index that is not in the table is
\* answered with an error.
handle_close_reply(devs, idx, index) ==
    IF Has(devs, index)
    THEN Out(NoResp, Remove(devs, index), idx,
             <<Ev("remove", devs[index].info, NoApdu, NoResp)>>)
    ELSE Out(RespError("Unknown"), devs, idx, <<>>)

\* Mutant of handle_close: the handle stays in the table.
handle_close_keep(devs, idx, index) == Out(NoResp, devs, idx, <<>>)

\* LedgerReq::Close
handle_close(devs, idx, index) ==
    IF Has(devs, index)
    THEN Out(NoResp, Remove(devs, index), idx,
             <<Ev("remove", devs[index].info, NoApdu, NoResp)>>)
    ELSE Out(NoResp, devs, idx, <<>>)

\* ProviderImpl::handle_req
handle_req(req, devs, idx, found, co, eo, lo) ==
    IF req.type = "List" THEN handle_list(devs, idx, lo)
    ELSE IF req.type = "Connect" THEN handle_connect(devs, idx, req.conn, found, co)
    ELSE IF req.type = "Req" THEN handle_exchange(devs, idx, req.index, req.apdu, eo)
    ELSE handle_close(devs, idx, req.index)

\* tx.send(resp) in ProviderImpl::run, then tx goes out of scope: the reply
\* channel of the call, after the request has been handled.
reply(r, resp) ==
    IF resp = NoResp THEN [r EXCEPT !.st = "closed"]
    ELSE [st |-> "closed", n |-> r.n + 1, msg |-> IF r.n = 0 THEN resp ELSE r.msg]

\* Mutant of drain: the queued messages are not dropped with the receiver, so
\* the senders of their reply channels stay alive.
drain_keep(q, r) == r

\* Dropping the receiver of the request channel drops every queued message
\* and with it the sender of its reply channel.
RECURSIVE drain(_, _)
drain(q, r) ==
    IF q = <<>> THEN r
    ELSE LET m == Head(q)
         IN drain(Tail(q),
                  IF m.tx \in Callers THEN [r EXCEPT ![m.tx].st = "closed"] ELSE r)

\* The request channel is closed once req_rx is dropped (context.rs:60-63).
ChanClosed == task = "failed"

\* ------------------------------------------------------ launch_app data
\* Attempts of the run loop (for i in 0..10).
RunAttempts == 10
\* Largest opts.reconnect_timeout_s tried, and longest device listing.
MaxBudget == 2
MaxListed == 2

\* LedgerInfo: the model and the connection info, which is of one transport
\* kind and carries a path (address, product id).
Models == {"NanoX", "NanoSPlus"}
Kinds == {"Usb", "Tcp"}
Paths == {"p1", "p2"}
Infos == [model : Models, conn : [kind : Kinds, path : Paths]]
NoInfo == [model |-> "none", conn |-> [kind |-> "none", path |-> "none"]]

\* Application names AppInfo.name can report, and the targets tried.
AppNames == {"BOLOS", "Bitcoin", "Ethereum"}
Targets == {"Bitcoin", "BOLOS"}

\* What d.request::<GenericApdu>(..) yields: Ok(_) or an Error.
RequestResults == {"Ok", "Status(Ok)", "EmptyResponse", "Status(LockedDevice)", "Timeout"}

\* A device handle returned by t.connect, numbered in the order of connection.
Handle(id, info) == [id |-> id, info |-> info]
NoHandle == Handle(0, NoInfo)

NoArgs == [info |-> NoInfo, app_name |-> "none", reconnect_timeout_s |-> 0]
NoIssued == [connect |-> 0, app_info |-> 0, exit |-> 0, run |-> 0, list |-> 0]
NoRc == [stage |-> "none", i |-> 0, lists |-> 0, new_info |-> NoInfo]
NoRet == [kind |-> "none", err |-> "none", handle |-> NoHandle]
RetOk(h) == [kind |-> "Ok", err |-> "none", handle |-> h]
RetErr(e) == [kind |-> "Err", err |-> e, handle |-> NoHandle]
Step(op, res, filters, listed, conn) ==
    [op |-> op, res |-> res, filters |-> filters, listed |-> listed, conn |-> conn]
NoStep == Step("none", "none", "none", <<>>, NoInfo)

\* No launch_app call is in progress.
LaunchIdle ==
    /\ lpc = "idle"
    /\ args = NoArgs
    /\ dev = NoHandle
    /\ opened = {}
    /\ issued = NoIssued
    /\ attempt = 0
    /\ rc = NoRc
    /\ ret = NoRet
    /\ llast = NoStep

\* ------------------------------------------------------------- codec data
\* An APDU header, and the header Default::default() gives.
Header(cla, ins, p1, p2) == [cla |-> cla, ins |-> ins, p1 |-> p1, p2 |-> p2]
DefaultHeader == Header(0, 0, 0, 0)

\* A message of any of the APDU types, one record shape for all: ty names the
\* type; header (ApduHeader, GenericApdu.header), s1 (RunAppReq.app_name,
\* AppInfoResp.name, DeviceInfoResp.se_version), s2 (AppInfoResp.version,
\* DeviceInfoResp.mcu_version), data (GenericApdu.data, DeviceInfoResp.flags),
\* flags (AppInfoResp.flags.bits()), id (DeviceInfoResp.target_id).
Apdu(ty, header, s1, s2, data, flags, id) ==
    [ty |-> ty, header |-> header, s1 |-> s1, s2 |-> s2, data |-> data,
     flags |-> flags, id |-> id]
NoApduMsg == Apdu("none", DefaultHeader, <<>>, <<>>, <<>>, 0, <<>>)

NoJob == [op |-> "none", m |-> NoApduMsg, resp |-> "none", len |-> 0,
          xerr |-> "none", bytes |-> <<>>]
NoOut == [st |-> "none"]

\* A BleInfo, and the value standing for no device.
BleInfo(name, addr) == [name |-> name, addr |-> addr]

NoBleInfo == BleInfo("none", "none")

\* BleTransport::new: no peripherals known; no BleDevice exists yet. The mtu
\* is that of the BleDevice (23 when created), subscribed whether its
\* peripheral is subscribed to the notify characteristic, scan the listing
\* the latest list call that returned one has returned.
BleNew ==
    [peripherals |-> <<>>, scan |-> <<>>, dev |-> NoBleInfo, mtu |-> 23,
     subscribed |-> FALSE]

\* No codec or transport operation is applied.
CodecIdle == job = NoJob /\ out = NoOut /\ ble = BleNew

\* ------------------------------------------------------------------- Init
ProviderInit ==
    /\ cell = "unset"
    /\ threads = 0
    /\ chans = 0
    /\ tables = 0
    /\ task = "none"
    /\ queue = <<>>
    /\ cur = NoMsg
    /\ devices = EmptyTable
    /\ device_index = 0
    /\ cpc = [c \in Callers |-> "new"]
    /\ prov = [c \in Callers |-> 0]
    /\ held = [c \in Callers |-> NoIndex]
    /\ rx = [c \in Callers |-> RxIdle]
    /\ result = NoResult
    /\ nextId = 1
    /\ recvd = 0
    /\ last = NoLast

Init == ProviderInit /\ LaunchIdle /\ CodecIdle

\* ------------------------------------------------- LedgerProvider::init
\* Mutant of may_initialise: a caller that finds the cell not yet set runs the
\* initialiser even when another caller is running it.
may_initialise_racy(c) == TRUE

\* OnceCell::get_or_init runs the initialiser only for a caller that finds the
\* cell unset and no initialiser running.
may_initialise(c) == cell = "unset"

\* LedgerProvider::init, first half: the cell is set (take its context), or
\* unset (start ProviderContext::new); a caller that finds the initialiser
\* running waits.
GetOrInit(c) ==
    /\ cpc[c] \in {"new", "ready"}
    /\ \/ /\ cell = "set"
          /\ prov' = [prov EXCEPT ![c] = chans]
          /\ cpc' = [cpc EXCEPT ![c] = "ready"]
          /\ cell' = cell
       \/ /\ cell # "set"
          /\ may_initialise(c)
          /\ cell' = "busy"
          /\ cpc' = [cpc EXCEPT ![c] = "initing"]
          /\ prov' = prov
    /\ result' = NoResult
    /\ last' = NoLast
    /\ UNCHANGED <<threads, chans, tables, task, queue, cur, devices, device_index,
                   held, rx, nextId, recvd>>
    /\ UNCHANGED <<lvars, cvars>>

\* ProviderContext::new, run by the initialising caller: creates the request
\* channel, spawns the provider thread, and the cell is set to the context.
InitFinish(c) ==
    /\ cpc[c] = "initing"
    /\ chans' = chans + 1
    /\ threads' = threads + 1
    /\ task' = IF task = "none" THEN "starting" ELSE task
    /\ cell' = "set"
    /\ prov' = [prov EXCEPT ![c] = chans + 1]
    /\ cpc' = [cpc EXCEPT ![c] = "ready"]
    /\ result' = NoResult
    /\ last' = NoLast
    /\ UNCHANGED <<tables, queue, cur, devices, device_index, held, rx, nextId, recvd>>
    /\ UNCHANGED <<lvars, cvars>>

\* ------------------------------------------------------------ callers
\* Mutant of send: the message is put at the head of the channel.
send_front(q, m) == IF ChanClosed THEN q ELSE <<m>> \o q

\* What self.req_tx.send((req, tx)) leaves on the request channel: the message
\* is appended unless the receiver is gone.
send(q, m) == IF ChanClosed THEN q ELSE Append(q, m)

\* self.req_tx.send((req, tx)).map_err(|_| Error::Unknown)? followed by
\* rx.recv().await: on a closed request channel the call returns
\* Err(Error::Unknown) at once; otherwise the request is enqueued and the
\* caller waits on its reply channel.
Call(c, req, kind) ==
    /\ cpc[c] = "ready"
    /\ IF ChanClosed
       THEN /\ result' = [caller |-> c, kind |-> kind, waited |-> FALSE,
                            val |-> RespError("Unknown")]
            /\ UNCHANGED <<rx, cpc, nextId>>
       ELSE /\ nextId <= MaxReqs
            /\ Len(queue) < MaxQueue
            /\ nextId' = nextId + 1
            /\ rx' = [rx EXCEPT ![c] = RxPending]
            /\ cpc' = [cpc EXCEPT ![c] = kind]
            /\ result' = NoResult
    /\ queue' = send(queue, Msg(nextId, req, c))
    /\ last' = NoLast
    /\ UNCHANGED <<cell, threads, chans, tables, task, cur, devices, device_index,
                   prov, held, recvd>>
    /\ UNCHANGED <<lvars, cvars>>

\* LedgerProvider::list
CallList(c) == Call(c, ReqList, "list")

\* LedgerProvider::connect
CallConnect(c, conn) ==
    /\ held[c] = NoIndex
    /\ Call(c, ReqConnect(conn), "connect")

\* LedgerHandle::exchange
CallExchange(c, apdu) ==
    /\ held[c] # NoIndex
    /\ Call(c, ReqReq(held[c], apdu), "exchange")

\* What rx.recv().await yields and the call makes of it: the response of the
\* expected kind, the error sent, and Error::Unknown for anything else,
\* including a reply channel closed without a response.
call_result(kind, r) ==
    IF r.n = 0 THEN RespError("Unknown")
    ELSE IF r.msg.kind = "Error" THEN r.msg
    ELSE IF kind = "list" /\ r.msg.kind = "Devices" THEN r.msg
    ELSE IF kind = "connect" /\ r.msg.kind = "Handle" THEN r.msg
    ELSE IF kind = "exchange" /\ r.msg.kind = "Resp" THEN r.msg
    ELSE RespError("Unknown")

\* The waiting call returns; a successful connect yields a LedgerHandle.
CallReturn(c) ==
    /\ cpc[c] \in {"list", "connect", "exchange"}
    /\ rx[c].st = "closed"
    /\ LET v == call_result(cpc[c], rx[c])
       IN /\ result' = [caller |-> c, kind |-> cpc[c], waited |-> TRUE, val |-> v]
          /\ held' = [held EXCEPT ![c] = IF v.kind = "Handle" THEN v.index ELSE @]
    /\ rx' = [rx EXCEPT ![c] = RxIdle]
    /\ cpc' = [cpc EXCEPT ![c] = "ready"]
    /\ last' = NoLast
    /\ UNCHANGED <<cell, threads, chans, tables, task, queue, cur, devices,
                   device_index, prov, nextId, recvd>>
    /\ UNCHANGED <<lvars, cvars>>

\* impl Drop for LedgerHandle: one Close carrying the handle's index, on a
\* reply channel whose receiver is dropped at once; the send is best-effort
\* (let _ = ...).
DropHandle(c) ==
    /\ cpc[c] = "ready"
    /\ held[c] # NoIndex
    /\ queue' = send(queue, Msg(nextId, ReqClose(held[c]), NoCaller))
    /\ nextId' = IF ChanClosed THEN nextId ELSE nextId + 1
    /\ held' = [held EXCEPT ![c] = NoIndex]
    /\ result' = NoResult
    /\ last' = NoLast
    /\ UNCHANGED <<cell, threads, chans, tables, task, cur, devices, device_index,
                   cpc, prov, rx, recvd>>
    /\ UNCHANGED <<lvars, cvars>>

\* ------------------------------------------------------ provider task
\* ProviderImpl::new succeeds: the handle table is created empty and the task
\* enters run().
TaskStartOk ==
    /\ task = "starting"
    /\ task' = "running"
    /\ tables' = tables + 1
    /\ devices' = EmptyTable
    /\ device_index' = 0
    /\ result' = NoResult
    /\ last' = NoLast
    /\ UNCHANGED <<cell, threads, chans, queue, cur, cpc, prov, held, rx,
                   nextId, recvd>>
    /\ UNCHANGED <<lvars, cvars>>

\* ProviderImpl::new fails (GenericTransport::new returned an error): the task
\* returns, req_rx is dropped and every queued request with it.
TaskStartFail ==
    /\ task = "starting"
    /\ task' = "failed"
    /\ rx' = drain(queue, rx)
    /\ queue' = <<>>
    /\ result' = NoResult
    /\ last' = NoLast
    /\ UNCHANGED <<cell, threads, chans, tables, cur, devices, device_index, cpc,
                   prov, held, nextId, recvd>>
    /\ UNCHANGED <<lvars, cvars>>

\* Mutant of recv: the task takes the newest queued message.
recv_newest(q) == Len(q)

\* self.req_rx.recv().await: the position in the channel of the message the
\* task takes next.
recv(q) == 1

\* The channel without its i-th message.
Without(q, i) == SubSeq(q, 1, i - 1) \o SubSeq(q, i + 1, Len(q))

\* ProviderImpl::run may take the next request only when the handling of the
\* previous one has completed (handle_req(..).await, then tx.send).
may_recv(m) == m = NoMsg

\* ProviderImpl::run, top of the loop: the next request is taken from the
\* channel.
Recv ==
    /\ task = "running"
    /\ may_recv(cur)
    /\ queue # <<>>
    /\ cur' = queue[recv(queue)]
    /\ queue' = Without(queue, recv(queue))
    /\ recvd' = recvd + 1
    /\ result' = NoResult
    /\ last' = NoLast
    /\ UNCHANGED <<cell, threads, chans, tables, task, devices, device_index, cpc,
                   prov, held, rx, nextId>>
    /\ UNCHANGED <<lvars, cvars>>

\* ProviderImpl::run, body of the loop: handle_req on the request taken, then
\* the response (if any) is sent on its reply channel and tx is dropped.
HandleReq ==
    /\ task = "running"
    /\ cur # NoMsg
    /\ \E co \in ConnectOutcomes, eo \in ExchangeOutcomes, lo \in ListOutcomes :
       \E found \in (IF cur.req.type = "Connect" /\ Matching(devices, cur.req.conn) # {}
                     THEN Matching(devices, cur.req.conn) ELSE {NoIndex}) :
          LET o == handle_req(cur.req, devices, device_index, found, co, eo, lo)
          IN /\ devices' = o.devices
             /\ device_index' = o.device_index
             /\ rx' = IF cur.tx \in Callers
                      THEN [rx EXCEPT ![cur.tx] = reply(@, o.resp)] ELSE rx
             /\ last' = [msg |-> cur, resp |-> o.resp, ops |-> o.ops]
    /\ cur' = NoMsg
    /\ result' = NoResult
    /\ UNCHANGED <<cell, threads, chans, tables, task, queue, cpc, prov, held,
                   nextId, recvd>>
    /\ UNCHANGED <<lvars, cvars>>

\* ------------------------------------------------------- environment
\* The physical link of an open device goes away (unplugged, socket closed)
\* or its state can no longer be queried.
LinkChange(k, s) ==
    /\ Has(devices, k)
    /\ devices[k].link = "up"
    /\ devices' = [devices EXCEPT ![k].link = s]
    /\ result' = NoResult
    /\ last' = NoLast
    /\ UNCHANGED <<cell, threads, chans, tables, task, queue, cur, device_index,
                   cpc, prov, held, rx, nextId, recvd>>
    /\ UNCHANGED <<lvars, cvars>>

Next ==
    \/ \E c \in Callers : GetOrInit(c)
    \/ \E c \in Callers : InitFinish(c)
    \/ \E c \in Callers : CallList(c)
    \/ \E c \in Callers, conn \in Conns : CallConnect(c, conn)
    \/ \E c \in Callers, a \in Apdus : CallExchange(c, a)
    \/ \E c \in Callers : CallReturn(c)
    \/ \E c \in Callers : DropHandle(c)
    \/ TaskStartOk
    \/ TaskStartFail
    \/ Recv
    \/ HandleReq
    \/ \E k \in Indices, s \in {"down", "fault"} : LinkChange(k, s)

Spec == Init /\ [][Next]_vars

\* The provider thread runs only the provider task (a current-thread runtime
\* blocked on the LocalSet), so its next step is eventually taken; a caller
\* awaiting rx.recv() is woken when its reply channel has a message or closes.
FairSpec ==
    /\ Spec
    /\ WF_vars(TaskStartOk \/ TaskStartFail)
    /\ WF_vars(Recv)
    /\ WF_vars(HandleReq)
    /\ \A c \in Callers : WF_vars(CallReturn(c))

\* =================================================================== claims
\* A step of HandleReq: the request in handling is completed.
HandleStep == cur # NoMsg /\ cur' = NoMsg

\* The table holds a live entry for the connection identity.
LiveEntry(conn) ==
    \E k \in Keys(devices) : devices[k].info = conn /\ devices[k].link = "up"

\* The transport operations in a log of handle_req.
Called(ops) == {ops[i].op : i \in DOMAIN ops} \ {"remove", "insert"}

\* C1: a Connect for an identity whose table entry is still connected is
\* answered with DeviceInUse (to the caller's reply channel), the transport
\* connect is not called, and the handle table and the index counter are
\* unchanged.
C1_DeviceInUse ==
    [][(HandleStep /\ cur.req.type = "Connect" /\ LiveEntry(cur.req.conn))
       => /\ last'.resp = RespError("DeviceInUse")
          /\ "connect" \notin Called(last'.ops)
          /\ devices' = devices
          /\ device_index' = device_index
          /\ cur.tx \in Callers => rx'[cur.tx].msg = RespError("DeviceInUse")]_vars

\* C1 witness: a Connect has just been rejected with DeviceInUse while another
\* caller holds the open handle for that identity.
C1_Witness ==
    /\ last.msg.req.type = "Connect"
    /\ last.resp = RespError("DeviceInUse")
    /\ \E c \in Callers : /\ c # last.msg.tx
                          /\ held[c] # NoIndex
                          /\ Has(devices, held[c])
                          /\ devices[held[c]].info = last.msg.req.conn

\* C2: the handle table never holds two entries with equal connection info.
C2_OneEntryPerConn ==
    \A k1 \in Keys(devices), k2 \in Keys(devices) :
        devices[k1].info = devices[k2].info => k1 = k2

\* C2 witness: a Connect for an identity that already had a (stale) entry has
\* just succeeded, and the table holds exactly one entry for that identity.
C2_Witness ==
    /\ last.msg.req.type = "Connect"
    /\ last.resp.kind = "Handle"
    /\ "is_connected" \in Called(last.ops)
    /\ Cardinality(Matching(devices, last.msg.req.conn)) = 1

\* C3: the indices of the handles that are open at the same time are pairwise
\* different: an index is not issued again while the handle that received it
\* is still open, also after the index counter wraps.
C3_UniqueOpenIndices ==
    \A c1 \in Callers, c2 \in Callers :
        (c1 # c2 /\ held[c1] # NoIndex) => held[c1] # held[c2]

\* C4: the provider task takes a request only when the handling of the
\* previous one (transport operation and reply included) has completed, and
\* the request it takes is the oldest one enqueued and not yet handled: the
\* k-th request taken carries arrival ticket k and every request left in the
\* channel arrived later.
C4_FifoOneAtATime ==
    [][(cur' # cur /\ cur' # NoMsg)
       => /\ cur = NoMsg
          /\ recvd' = recvd + 1
          /\ cur'.id = recvd'
          /\ \A i \in DOMAIN queue' : queue'[i].id > cur'.id]_vars

\* C4 witness: a request of one caller is being handled while a request of
\* another caller, enqueued later, waits in the channel.
C4_Witness ==
    /\ cur # NoMsg
    /\ cur.tx \in Callers
    /\ \E i \in DOMAIN queue : /\ queue[i].tx \in Callers
                               /\ queue[i].tx # cur.tx
                               /\ queue[i].id > cur.id

\* A caller is waiting on the reply channel of a call.
Waiting(c) == cpc[c] \in {"list", "connect", "exchange"}

C6_CloseNoResponse ==
    [][HandleStep
       => IF cur.req.type = "Close"
          THEN last'.resp = NoResp /\ rx' = rx
          ELSE /\ last'.resp # NoResp
               /\ cur.tx \in Callers
               /\ rx'[cur.tx].n = rx[cur.tx].n + 1
               /\ rx'[cur.tx].msg = last'.resp
               /\ \A c \in Callers \ {cur.tx} : rx'[c] = rx[c]]_vars

\* C6 witness: a Close for an index that is not in the table has just been
\* handled without a response.
C6_Witness ==
    /\ last.msg.req.type = "Close"
    /\ last.ops = <<>>
    /\ last.resp = NoResp

InitReturned == \E c \in Callers : prov[c] # 0

\* C8 as stated: once init has returned and the provider task has finished
\* starting, exactly one thread, one request channel and one handle table
\* have been created and every LedgerProvider sends to that channel.
C8_ExactlyOneOfEach ==
    (InitReturned /\ task \notin {"none", "starting"})
    => /\ threads = 1
       /\ chans = 1
       /\ tables = 1
       /\ \A c \in Callers : prov[c] \in {0, 1}

\* C8 amended: never more than one thread, request channel or handle table;
\* once init has returned exactly one thread and one request channel exist and
\* every LedgerProvider sends to that channel; the handle table exists exactly
\* when the provider task is running, and none is created when the transport
\* initialisation fails.
C8_SingleInit ==
    /\ threads <= 1
    /\ chans <= 1
    /\ tables <= 1
    /\ InitReturned => (threads = 1 /\ chans = 1)
    /\ \A c \in Callers : prov[c] \in {0, 1}
    /\ tables = 1 <=> task = "running"
    /\ task = "failed" => tables = 0

\* C8 witness: both callers have initialised, one thread and one channel were
\* created, and the transport initialisation failed, so no table exists.
C8_Witness ==
    /\ \A c \in Callers : prov[c] = 1
    /\ threads = 1
    /\ chans = 1
    /\ task = "failed"
    /\ tables = 0

\* C9: an Exchange with an index that is not in the table is answered with
\* Error::Unknown and performs no transport operation; with a known index the
\* bytes are passed to that handle's exchange and its result or error is the
\* response; in both cases the table and the index counter are unchanged.
C9_Exchange ==
    [][(HandleStep /\ cur.req.type = "Req")
       => /\ devices' = devices
          /\ device_index' = device_index
          /\ IF ~Has(devices, cur.req.index)
             THEN last'.resp = RespError("Unknown") /\ last'.ops = <<>>
             ELSE /\ Len(last'.ops) = 1
                  /\ last'.ops[1].op = "exchange"
                  /\ last'.ops[1].conn = devices[cur.req.index].info
                  /\ last'.ops[1].apdu = cur.req.apdu
                  /\ last'.resp = last'.ops[1].res
                  /\ last'.resp.kind \in {"Resp", "Error"}
          /\ cur.tx \in Callers => rx'[cur.tx].msg = last'.resp]_vars

\* C9 witness: an Exchange on a handle whose entry was discarded as stale has
\* just been answered with Error::Unknown without a transport operation.
C9_Witness ==
    /\ last.msg.req.type = "Req"
    /\ last.resp = RespError("Unknown")
    /\ last.ops = <<>>
    /\ \E c \in Callers : held[c] = last.msg.req.index

\* The table holds an entry for the identity that is no longer connected, or
\* whose liveness check fails.
StaleEntry(conn) ==
    \E k \in Matching(devices, conn) : devices[k].link # "up"

\* Position of the first entry of a log with the given operation, 0 if none.
PosOf(ops, op) ==
    IF \E i \in DOMAIN ops : ops[i].op = op
    THEN CHOOSE i \in DOMAIN ops :
            ops[i].op = op /\ \A j \in DOMAIN ops : ops[j].op = op => i <= j
    ELSE 0

\* C10: a Connect that finds a stale entry for its identity removes it before
\* the transport connect; on success the connection is stored under a newly
\* allocated index different from the stale one; on failure the stale entry
\* stays removed and the transport error is the response.
C10_StaleReplaced ==
    [][(HandleStep /\ cur.req.type = "Connect" /\ StaleEntry(cur.req.conn))
       => LET k == CHOOSE k \in Matching(devices, cur.req.conn) : TRUE
              ops == last'.ops
          IN /\ PosOf(ops, "remove") > 0
             /\ PosOf(ops, "connect") > PosOf(ops, "remove")
             /\ IF last'.resp.kind = "Handle"
                THEN /\ last'.resp.index # k
                     /\ Has(devices', last'.resp.index)
                     /\ devices'[last'.resp.index] = Dev(cur.req.conn)
                     /\ ~Has(devices', k)
                ELSE /\ last'.resp.kind = "Error"
                     /\ last'.resp = ops[PosOf(ops, "connect")].res
                     /\ ~Has(devices', k)]_vars

\* The arrival tickets a call queued behind an Exchange can carry: a
\* Connect and the Exchange came before it, and calls take the tickets up
\* to MaxReqs.
Tickets == 3 .. MaxReqs

\* An Exchange has just been answered with the transport's Timeout.
TimedOut == last.msg.req.type = "Req" /\ last.resp = RespError("Timeout")

\* C11: an Exchange that times out in the transport is answered with
\* Error::Timeout on its caller's reply channel, the handle stays in the table
\* and the counter is untouched, the task keeps running with nothing in
\* handling and the channel as it was; every request queued at that moment
\* under one of the tickets of calls is eventually handled and, unless it is
\* a Close, answered on its own reply channel.
C11_TimeoutMovesOn ==
    /\ [][(HandleStep /\ cur.req.type = "Req" /\ last'.resp = RespError("Timeout"))
          => /\ devices' = devices
             /\ device_index' = device_index
             /\ Has(devices', cur.req.index)
             /\ cur.tx \in Callers
             /\ rx'[cur.tx].msg = RespError("Timeout")
             /\ rx'[cur.tx].n = 1
             /\ task' = "running"
             /\ cur' = NoMsg
             /\ queue' = queue]_vars
    /\ \A i \in Tickets :
          (TimedOut /\ \E j \in DOMAIN queue : queue[j].id = i)
          ~> (/\ last.msg.id = i
              /\ last.msg.req.type # "Close"
                 => (last.msg.tx \in Callers /\ rx[last.msg.tx].msg = last.resp))

\* C11 witness: an Exchange of one caller has just timed out, its handle is
\* still in the table, and a request of the other caller waits in the channel.
C11_Witness ==
    /\ TimedOut
    /\ Has(devices, last.msg.req.index)
    /\ rx[last.msg.tx].msg = RespError("Timeout")
    /\ \E j \in DOMAIN queue : queue[j].tx \in Callers \ {last.msg.tx}

\* ============================================================= launch_app
\* Outcomes of the calls launch_app makes on its transport and device.
AppInfoErrors == {"Timeout"}
\* The entries a device listing is made of, and the listings tried.
Info(model, k, path) == [model |-> model, conn |-> [kind |-> k, path |-> path]]
Listed == {Info("NanoX", "Usb", "p1"), Info("NanoX", "Usb", "p2"),
           Info("NanoSPlus", "Tcp", "p1")}
Listings == UNION {[1 .. n -> Listed] : n \in 0 .. MaxListed}

\* The infos launch_app is called with: every model and kind, one path.
Originals == {i \in Infos : i.conn.path = "p1"}

\* Mutant of already_running: the current name is compared with the system
\* launcher's instead of the target.
already_running_bolos(name, app) == name = "BOLOS"

\* if i.name == app_name
already_running(name, app) == name = app

\* Mutant of must_exit: the exit request is sent whatever the current
\* application is.
must_exit_always(name) == TRUE

\* if i.name != "BOLOS"
must_exit(name) == name # "BOLOS"

\* Mutant of exit_reply: an empty response to the exit request counts as an
\* acknowledgement.
exit_reply_lenient(r) ==
    IF r \in {"Ok", "Status(Ok)", "EmptyResponse"} THEN "done" ELSE "fail"

\* The match on the reply to ExitAppReq.
exit_reply(r) == IF r \in {"Ok", "Status(Ok)"} THEN "done" ELSE "fail"

\* Mutant of run_reply: only a non-error reply counts as success, the status
\* Ok is an error like any other.
run_reply_strict(r) ==
    IF r = "Ok" THEN "launched"
    ELSE IF r = "EmptyResponse" THEN "retry"
    ELSE "fail"

\* The match on the reply to RunAppReq.
run_reply(r) ==
    IF r \in {"Ok", "Status(Ok)"} THEN "launched"
    ELSE IF r = "EmptyResponse" THEN "retry"
    ELSE "fail"

\* Mutant of more_attempts: the loop bound is inclusive.
more_attempts_inclusive(i) == i <= RunAttempts

\* for i in 0..10
more_attempts(i) == i < RunAttempts

\* Mutant of more_scans: the loop bound is inclusive.
more_scans_inclusive(i, timeout_s) == i <= timeout_s

\* for i in 0..opts.reconnect_timeout_s
more_scans(i, timeout_s) == i < timeout_s

\* LedgerInfo::kind: the transport kind of the connection info.
kind(info) == info.conn.kind

\* Filters::from(kind): the discovery filter selecting one transport kind.
filters_from(k) == IF k = "Usb" THEN "Hid" ELSE k

\* |i| i.model == info.model && i.kind() == info.kind()
matches(i, info) == i.model = info.model /\ kind(i) = kind(info)

\* Mutant of find: the last matching entry is taken.
find_last(listed, info) ==
    IF \E j \in DOMAIN listed : matches(listed[j], info)
    THEN CHOOSE j \in DOMAIN listed :
            /\ matches(listed[j], info)
            /\ \A k \in DOMAIN listed : matches(listed[k], info) => j >= k
    ELSE 0

\* devices.iter().find(..): position of the first matching entry, 0 for None.
find(listed, info) ==
    IF \E j \in DOMAIN listed : matches(listed[j], info)
    THEN CHOOSE j \in DOMAIN listed :
            /\ matches(listed[j], info)
            /\ \A k \in DOMAIN listed : matches(listed[k], info) => j <= k
    ELSE 0

\* A fresh activation of reconnect, called after the exit or the run step.
Reconnecting(stage) == [stage |-> stage, i |-> 0, lists |-> 0, new_info |-> NoInfo]

\* Mutant of ReturnErr: the handle launch_app holds stays open when it
\* returns an error.
ReturnErr_leak(e) ==
    /\ lpc' = "done"
    /\ ret' = RetErr(e)
    /\ dev' = NoHandle
    /\ opened' = opened

\* return Err(e): launch_app ends and its handle, if any, is dropped.
ReturnErr(e) ==
    /\ lpc' = "done"
    /\ ret' = RetErr(e)
    /\ dev' = NoHandle
    /\ opened' = opened \ {dev.id}

\* let mut d = t.connect(info.clone()).await?
LaunchConnect ==
    /\ lpc = "connect"
    /\ \E o \in ConnectOutcomes :
          /\ llast' = Step("connect", o, "none", <<>>, args.info)
          /\ IF o = "ok"
             THEN /\ dev' = Handle(issued.connect + 1, args.info)
                  /\ opened' = opened \cup {issued.connect + 1}
                  /\ lpc' = "app_info"
                  /\ ret' = ret
             ELSE ReturnErr(o)
    /\ issued' = [issued EXCEPT !.connect = @ + 1]
    /\ UNCHANGED <<args, attempt, rc>>
    /\ UNCHANGED <<pvars, cvars>>

\* let i = d.app_info(timeout).await?, the early return and the choice of
\* the exit step.
LaunchAppInfo ==
    /\ lpc = "app_info"
    /\ \E r \in AppNames \cup AppInfoErrors :
          /\ llast' = Step("app_info", r, "none", <<>>, NoInfo)
          /\ IF r \in AppInfoErrors
             THEN ReturnErr(r)
             ELSE IF already_running(r, args.app_name)
             THEN /\ lpc' = "done"
                  /\ ret' = RetOk(dev)
                  /\ UNCHANGED <<dev, opened>>
             ELSE /\ lpc' = IF must_exit(r) THEN "exit" ELSE "run"
                  /\ UNCHANGED <<ret, dev, opened>>
    /\ issued' = [issued EXCEPT !.app_info = @ + 1]
    /\ UNCHANGED <<args, attempt, rc>>
    /\ UNCHANGED <<pvars, cvars>>

\* The exit request and, when it is acknowledged, drop(d) and the call of
\* reconnect (after the settle delay).
LaunchExit ==
    /\ lpc = "exit"
    /\ \E r \in RequestResults :
          /\ llast' = Step("exit", r, "none", <<>>, NoInfo)
          /\ IF exit_reply(r) = "done"
             THEN /\ dev' = NoHandle
                  /\ opened' = opened \ {dev.id}
                  /\ lpc' = "reconnect"
                  /\ rc' = Reconnecting("exit")
                  /\ ret' = ret
             ELSE ReturnErr(r) /\ rc' = rc
    /\ issued' = [issued EXCEPT !.exit = @ + 1]
    /\ UNCHANGED <<args, attempt>>
    /\ UNCHANGED <<pvars, cvars>>

\* One round of the run loop: the run request and the match on its reply.
LaunchRun ==
    /\ lpc = "run"
    /\ more_attempts(attempt)
    /\ \E r \in RequestResults :
          /\ llast' = Step("run", r, "none", <<>>, NoInfo)
          /\ IF run_reply(r) = "launched"
             THEN /\ dev' = NoHandle
                  /\ opened' = opened \ {dev.id}
                  /\ lpc' = "reconnect"
                  /\ rc' = Reconnecting("run")
                  /\ UNCHANGED <<ret, attempt>>
             ELSE IF run_reply(r) = "retry"
             THEN /\ attempt' = attempt + 1
                  /\ UNCHANGED <<lpc, rc, ret, dev, opened>>
             ELSE ReturnErr(r) /\ UNCHANGED <<rc, attempt>>
    /\ issued' = [issued EXCEPT !.run = @ + 1]
    /\ UNCHANGED args
    /\ UNCHANGED <<pvars, cvars>>

\* The run loop ends: Err(Error::Timeout).
LaunchTimeout ==
    /\ lpc = "run"
    /\ ~more_attempts(attempt)
    /\ ReturnErr("Timeout")
    /\ llast' = NoStep
    /\ UNCHANGED <<args, issued, attempt, rc>>
    /\ UNCHANGED <<pvars, cvars>>

\* Mutant of scan_round: a failed list is treated like a list without a
\* match, the loop sleeps and scans again.
scan_round_retry(o, listed, info) ==
    IF o = "ok" /\ find(listed, info) # 0 THEN "found" ELSE "sleep"

\* One round of the scan loop of reconnect: `?` on the result of list, then
\* the match on the search for a matching entry.
scan_round(o, listed, info) ==
    IF o # "ok" THEN "return"
    ELSE IF find(listed, info) # 0 THEN "found"
    ELSE "sleep"

\* reconnect, one round of the scan loop: t.list(filters) and the search for
\* a matching entry.
ReconnectList ==
    /\ lpc = "reconnect"
    /\ more_scans(rc.i, args.reconnect_timeout_s)
    /\ \E o \in ListOutcomes :
          \E listed \in (IF o = "ok" THEN Listings ELSE {<<>>}) :
             LET filters == filters_from(kind(args.info))
                 round == scan_round(o, listed, args.info)
             IN /\ llast' = Step("list", o, filters, listed, NoInfo)
                /\ IF round = "return"
                   THEN /\ ReturnErr(o)
                        /\ rc' = [rc EXCEPT !.lists = @ + 1]
                   ELSE /\ IF round = "found"
                           THEN /\ rc' = [rc EXCEPT !.lists = @ + 1,
                                               !.new_info = listed[find(listed, args.info)]]
                                /\ lpc' = "reconnect_connect"
                           ELSE /\ rc' = [rc EXCEPT !.lists = @ + 1, !.i = @ + 1]
                                /\ lpc' = lpc
                        /\ UNCHANGED <<ret, dev, opened>>
    /\ issued' = [issued EXCEPT !.list = @ + 1]
    /\ UNCHANGED <<args, attempt>>
    /\ UNCHANGED <<pvars, cvars>>

\* reconnect, the scan loop ended without a match: Err(Error::Closed).
ReconnectClosed ==
    /\ lpc = "reconnect"
    /\ ~more_scans(rc.i, args.reconnect_timeout_s)
    /\ ReturnErr("Closed")
    /\ llast' = NoStep
    /\ UNCHANGED <<args, issued, attempt, rc>>
    /\ UNCHANGED <<pvars, cvars>>

\* reconnect, t.connect(new_info).await?, and what launch_app does with the
\* device returned: on to the run loop after the exit step, Ok(d) after the
\* run step.
ReconnectConnect ==
    /\ lpc = "reconnect_connect"
    /\ \E o \in ConnectOutcomes :
          /\ llast' = Step("connect", o, "none", <<>>, rc.new_info)
          /\ IF o = "ok"
             THEN LET h == Handle(issued.connect + 1, rc.new_info)
                  IN /\ dev' = h
                     /\ opened' = opened \cup {h.id}
                     /\ IF rc.stage = "exit"
                        THEN lpc' = "run" /\ ret' = ret
                        ELSE lpc' = "done" /\ ret' = RetOk(h)
             ELSE ReturnErr(o)
    /\ issued' = [issued EXCEPT !.connect = @ + 1]
    /\ UNCHANGED <<args, attempt, rc>>
    /\ UNCHANGED <<pvars, cvars>>

\* launch_app is called with some info, target and options.
LaunchInit ==
    /\ ProviderInit
    /\ lpc = "connect"
    /\ args \in [info : Originals, app_name : Targets,
                  reconnect_timeout_s : 0 .. MaxBudget]
    /\ dev = NoHandle
    /\ opened = {}
    /\ issued = NoIssued
    /\ attempt = 0
    /\ rc = NoRc
    /\ ret = NoRet
    /\ llast = NoStep
    /\ CodecIdle

LaunchNext ==
    \/ LaunchConnect
    \/ LaunchAppInfo
    \/ LaunchExit
    \/ LaunchRun
    \/ LaunchTimeout
    \/ ReconnectList
    \/ ReconnectClosed
    \/ ReconnectConnect

LaunchSpec == LaunchInit /\ [][LaunchNext]_vars

\* launch_app is awaited by its caller: its next step is eventually taken
\* (every call it makes returns, every sleep ends).
LaunchFairSpec == LaunchSpec /\ WF_vars(LaunchNext)

\* ------------------------------------------------------ launch_app claims
\* A reply that launch_app takes as success of an exit or run request.
Success == {"Ok", "Status(Ok)"}

\* launch_app has returned and issues nothing more.
Returned == [][lpc = "done" => UNCHANGED <<issued, ret, dev, opened>>]_vars

\* C12: when the application info reports the target's name, launch_app
\* returns Ok with the handle of its one connect, still open, having issued
\* exactly one connect and one application-info request and no exit, run or
\* list; nothing is issued after the return.
C12_AlreadyRunning ==
    /\ [][(lpc = "app_info" /\ llast'.op = "app_info"
                            /\ llast'.res = args.app_name)
          => /\ lpc' = "done"
             /\ ret' = RetOk(dev)
             /\ dev' = dev
             /\ dev.id \in opened'
             /\ issued' = [connect |-> 1, app_info |-> 1, exit |-> 0,
                           run |-> 0, list |-> 0]]_vars
    /\ Returned

\* C12 witness: launch_app has returned the handle of its first connect right
\* after the application info.
C12_Witness ==
    /\ lpc = "done"
    /\ llast.op = "app_info"
    /\ llast.res = args.app_name
    /\ ret.kind = "Ok"
    /\ ret.handle.id = 1
    /\ issued.connect = 1
    /\ issued.run = 0

\* C13: never more than RunAttempts (10) run requests; in the run loop the
\* requests issued equal the attempts consumed; an EmptyResponse consumes one
\* attempt and, while attempts remain, the run request is issued again on the
\* same handle; with all attempts consumed launch_app returns Error::Timeout
\* and issues nothing (no run, list or connect).
C13_RunAttempts ==
    /\ [](issued.run <= RunAttempts)
    /\ [](lpc = "run" => issued.run = attempt)
    /\ []((lpc = "run" /\ attempt < RunAttempts) => ENABLED LaunchRun)
    /\ [][(lpc = "run" /\ llast'.op = "run" /\ llast'.res = "EmptyResponse")
          => /\ attempt' = attempt + 1
             /\ issued'.run = issued.run + 1
             /\ lpc' = "run"
             /\ dev' = dev]_vars
    /\ [][(lpc = "run" /\ attempt = RunAttempts)
          => /\ lpc' = "done"
             /\ ret' = RetErr("Timeout")
             /\ issued' = issued]_vars
    /\ Returned

\* C13 witness: launch_app has returned Error::Timeout after ten run requests
\* that were all answered with EmptyResponse.
C13_Witness ==
    /\ lpc = "done"
    /\ ret = RetErr("Timeout")
    /\ llast = NoStep
    /\ attempt = RunAttempts
    /\ issued.run = RunAttempts

\* launch_app has returned after its tenth run request, which followed nine
\* EmptyResponse replies, was answered with success.
TenthLaunched ==
    /\ lpc = "done"
    /\ rc.stage = "run"
    /\ attempt = RunAttempts - 1
    /\ issued.run = RunAttempts

\* The connects launch_app has issued when the reconnect after the run step
\* has connected: its first, one after an exit step, and that reconnect's.
ConnectsWhenLaunched == IF issued.exit = 0 THEN 2 ELSE 3

\* C14 as stated: after nine EmptyResponse replies and a success on the tenth
\* run request launch_app succeeds, returning the handle connected by the one
\* reconnect, which used at most reconnect_timeout_s list calls.
C14_TenthSucceeds ==
    TenthLaunched
    => /\ ret.kind = "Ok"
       /\ ret.handle = dev
       /\ dev.id = issued.connect
       /\ opened = {dev.id}
       /\ issued.connect = ConnectsWhenLaunched
       /\ rc.lists <= args.reconnect_timeout_s

\* C14 amended: a success on the tenth run request (after nine EmptyResponse
\* replies) makes launch_app drop its handle and call reconnect; that
\* reconnect issues at most reconnect_timeout_s list calls and at most one
\* connect; launch_app then returns the newly connected handle, the only one
\* open, when the reconnect connected, and the reconnect's error with no
\* handle open otherwise.
C14_TenthLaunches ==
    /\ [][(lpc = "run" /\ attempt = RunAttempts - 1 /\ llast'.op = "run"
                       /\ llast'.res \in Success)
          => /\ issued'.run = RunAttempts
             /\ dev' = NoHandle
             /\ opened' = {}
             /\ lpc' = "reconnect"
             /\ rc' = Reconnecting("run")]_vars
    /\ [](rc.stage = "run"
          => /\ rc.lists <= args.reconnect_timeout_s
             /\ issued.connect <= ConnectsWhenLaunched)
    /\ [](TenthLaunched
          => IF ret.kind = "Ok"
             THEN /\ ret.handle = dev
                  /\ dev.id = issued.connect
                  /\ dev.info = rc.new_info
                  /\ opened = {dev.id}
                  /\ issued.connect = ConnectsWhenLaunched
             ELSE /\ ret.err \in {"Closed"} \cup ((ListOutcomes \cup ConnectOutcomes) \ {"ok"})
                  /\ opened = {}
                  /\ issued.connect <= ConnectsWhenLaunched)
    /\ Returned

\* C14 witness: launch_app has returned the handle connected by the reconnect
\* that followed a success on its tenth run request.
C14_Witness ==
    /\ TenthLaunched
    /\ ret.kind = "Ok"
    /\ ret.handle.id = issued.connect
    /\ rc.lists >= 1

\* C15: a reply to the exit request that is neither a non-error reply nor
\* status Ok, and a reply to a run request that is none of these nor
\* EmptyResponse, makes launch_app return that error in the same step, having
\* issued only that request; nothing is issued after the return.
C15_Terminal ==
    /\ [][(lpc = "exit" /\ llast'.op = "exit" /\ llast'.res \notin Success)
          => /\ lpc' = "done"
             /\ ret' = RetErr(llast'.res)
             /\ issued' = [issued EXCEPT !.exit = @ + 1]]_vars
    /\ [][(lpc = "run" /\ llast'.op = "run"
                       /\ llast'.res \notin Success \cup {"EmptyResponse"})
          => /\ lpc' = "done"
             /\ ret' = RetErr(llast'.res)
             /\ issued' = [issued EXCEPT !.run = @ + 1]]_vars
    /\ Returned

\* C15 witness: launch_app has returned the EmptyResponse error it got for
\* its exit request.
C15_Witness ==
    /\ lpc = "done"
    /\ llast.op = "exit"
    /\ ret = RetErr("EmptyResponse")
    /\ issued.exit = 1
    /\ issued.run = 0
    /\ issued.list = 0

\* C16: reconnect issues at most reconnect_timeout_s list calls; when that
\* many listings had no matching entry (none at all for a budget of 0) it
\* returns Error::Closed without a list or connect; reconnect always ends and
\* launch_app always returns.
C16_ReconnectTerminates ==
    /\ [](rc.lists <= args.reconnect_timeout_s)
    /\ [][(lpc = "reconnect" /\ rc.lists = args.reconnect_timeout_s)
          => /\ lpc' = "done"
             /\ ret' = RetErr("Closed")
             /\ issued' = issued]_vars
    /\ (lpc = "reconnect") ~> (lpc # "reconnect")
    /\ <>(lpc = "done")

\* C16 witness: launch_app has failed with Error::Closed after reconnect used
\* its whole budget of list calls without a match.
C16_Witness ==
    /\ lpc = "done"
    /\ ret = RetErr("Closed")
    /\ args.reconnect_timeout_s > 0
    /\ rc.lists = args.reconnect_timeout_s
    /\ issued.list >= rc.lists

\* The positions of a listing whose entry has the model and the transport
\* kind of the original info.
SameModelAndKind(listed) ==
    {j \in DOMAIN listed : /\ listed[j].model = args.info.model
                           /\ listed[j].conn.kind = args.info.conn.kind}

\* C17: every list call of reconnect carries the filter of the original
\* connection's transport kind; a listing with an entry of the original's
\* model and kind makes reconnect take the first such entry, whatever its
\* path, and a listing without one makes it scan again; the connect is issued
\* with the entry taken and the handle returned carries that entry's info.
C17_FirstMatch ==
    /\ [][(lpc = "reconnect" /\ llast'.op = "list")
          => llast'.filters = (IF args.info.conn.kind = "Usb" THEN "Hid" ELSE "Tcp")]_vars
    /\ [][(lpc = "reconnect" /\ llast'.op = "list" /\ llast'.res = "ok")
          => LET m == SameModelAndKind(llast'.listed)
             IN IF m = {}
                THEN lpc' = "reconnect" /\ rc'.new_info = NoInfo
                ELSE /\ lpc' = "reconnect_connect"
                     /\ \E j \in m : /\ \A k \in m : j <= k
                                      /\ rc'.new_info = llast'.listed[j]]_vars
    /\ [][(lpc = "reconnect_connect" /\ llast'.op = "connect")
          => /\ llast'.conn = rc.new_info
             /\ llast'.res = "ok" => dev'.info = rc.new_info]_vars

\* C17 witness: a listing of two different entries that both have the
\* original's model and kind has made reconnect take the first, whose path
\* is not the original's.
C17_Witness ==
    /\ lpc = "reconnect_connect"
    /\ llast.op = "list"
    /\ Len(llast.listed) = 2
    /\ SameModelAndKind(llast.listed) = {1, 2}
    /\ llast.listed[1] # llast.listed[2]
    /\ rc.new_info = llast.listed[1]
    /\ rc.new_info.conn.path # args.info.conn.path

\* ================================================================== codec
\* u8::MAX, APP_VERSION_FMT and APDU_BUFF_LEN
U8Max == 255
APP_VERSION_FMT == 1
APDU_BUFF_LEN == 256

\* Longest string or byte field of a message tried.
MaxStr == 2

\* `n as u8`
as_u8(n) == n % (U8Max + 1)

\* The message types whose body is empty (unit structs with derived codecs).
EmptyTypes == {"AppInfoReq", "DeviceInfoReq", "ExitAppReq", "AppListStartReq",
               "AppListNextReq"}

\* Results of encode: Ok(n) with the n bytes written, or Err(e).
EncOk(bytes) == [ok |-> TRUE, n |-> Len(bytes), bytes |-> bytes, err |-> "none"]
EncErr(e) == [ok |-> FALSE, n |-> 0, bytes |-> <<>>, err |-> e]

\* Results of decode: Ok((value, n)), Err(e), or a panic (a slice or index
\* out of range).
DecOk(val, n) == [st |-> "Ok", val |-> val, n |-> n, err |-> "none"]
DecErr(e) == [st |-> "Err", val |-> NoApduMsg, n |-> 0, err |-> e]
DecPanic == [st |-> "panic", val |-> NoApduMsg, n |-> 0, err |-> "none"]

\* core::str::from_utf8(..).is_ok(), on bytes that are ASCII or 0xff.
is_utf8(bytes) == \A i \in DOMAIN bytes : bytes[i] < 128

\* Mutant of from_bits_truncate: no flag bit is kept.
from_bits_truncate_none(b) == 0

\* AppFlags::from_bits_truncate: the bits of the defined flags (all but bit 6).
from_bits_truncate(b) == IF (b \div 64) % 2 = 1 THEN b - 64 ELSE b

\* Encode::encode_len of each message type.
encode_len(m) ==
    IF m.ty = "ApduHeader" THEN 4
    ELSE IF m.ty \in EmptyTypes THEN 0
    ELSE IF m.ty = "RunAppReq" THEN Len(m.s1)
    ELSE IF m.ty = "AppInfoResp" THEN 1 + (1 + Len(m.s1)) + (1 + Len(m.s2)) + 2
    ELSE IF m.ty = "DeviceInfoResp"
    THEN 4 + (1 + Len(m.s1)) + (1 + Len(m.data)) + (1 + Len(m.s2))
    ELSE Len(m.data)

\* AppInfoResp::encode, past the length check.
encode_app_info(m) ==
    <<APP_VERSION_FMT, as_u8(Len(m.s1))>> \o m.s1
    \o <<as_u8(Len(m.s2))>> \o m.s2 \o <<1, m.flags>>

\* DeviceInfoResp::encode, past the length check.
encode_device_info(m) ==
    m.id \o <<as_u8(Len(m.s1))>> \o m.s1 \o <<as_u8(Len(m.data))>> \o m.data
    \o <<as_u8(Len(m.s2))>> \o m.s2

\* Encode::encode of each message type into a buffer of blen bytes.
encode(m, blen) ==
    IF blen < encode_len(m) THEN EncErr("InvalidLength")
    ELSE IF m.ty = "ApduHeader"
    THEN EncOk(<<m.header.cla, m.header.ins, m.header.p1, m.header.p2>>)
    ELSE IF m.ty \in EmptyTypes THEN EncOk(<<>>)
    ELSE IF m.ty = "RunAppReq" THEN EncOk(m.s1)
    ELSE IF m.ty = "AppInfoResp" THEN EncOk(encode_app_info(m))
    ELSE IF m.ty = "DeviceInfoResp" THEN EncOk(encode_device_info(m))
    ELSE EncOk(m.data)

\* A field with a one-byte length prefix read at (0-based) index i:
\* buff[i] as usize, then &buff[i + 1..][..len].
field(b, i) ==
    IF i >= Len(b) THEN [st |-> "panic", val |-> <<>>, next |-> 0]
    ELSE IF i + 1 + b[i + 1] > Len(b) THEN [st |-> "panic", val |-> <<>>, next |-> 0]
    ELSE [st |-> "ok", val |-> SubSeq(b, i + 2, i + 1 + b[i + 1]),
          next |-> i + 1 + b[i + 1]]

\* AppInfoResp::decode
decode_app_info(b) ==
    IF Len(b) < 1 THEN DecPanic
    ELSE IF b[1] # APP_VERSION_FMT THEN DecErr("InvalidVersion")
    ELSE LET name == field(b, 1)
         IN IF name.st = "panic" THEN DecPanic
            ELSE IF ~is_utf8(name.val) THEN DecErr("InvalidUtf8")
            ELSE LET version == field(b, name.next)
                 IN IF version.st = "panic" THEN DecPanic
                    ELSE IF ~is_utf8(version.val) THEN DecErr("InvalidUtf8")
                    ELSE IF Len(b) > version.next
                    THEN IF version.next + 1 >= Len(b) THEN DecPanic
                         ELSE DecOk(Apdu("AppInfoResp", DefaultHeader, name.val,
                                         version.val, <<>>,
                                         from_bits_truncate(b[version.next + 2]), <<>>),
                                    version.next + 1 + b[version.next + 1])
                    ELSE DecOk(Apdu("AppInfoResp", DefaultHeader, name.val,
                                    version.val, <<>>, 0, <<>>),
                               version.next)

\* DeviceInfoResp::decode
decode_device_info(b) ==
    IF Len(b) < 4 THEN DecPanic
    ELSE LET se == field(b, 4)
         IN IF se.st = "panic" THEN DecPanic
            ELSE IF ~is_utf8(se.val) THEN DecErr("InvalidUtf8")
            ELSE LET fl == field(b, se.next)
                 IN IF fl.st = "panic" THEN DecPanic
                    ELSE LET mcu == field(b, fl.next)
                         IN IF mcu.st = "panic" THEN DecPanic
                            ELSE IF ~is_utf8(mcu.val) THEN DecErr("InvalidUtf8")
                            ELSE DecOk(Apdu("DeviceInfoResp", DefaultHeader, se.val,
                                            mcu.val, fl.val, 0, SubSeq(b, 1, 4)),
                                       mcu.next)

\* Decode::decode (DecodeOwned::decode_owned) of each message type.
decode(ty, b) ==
    IF ty = "ApduHeader"
    THEN IF Len(b) < 4 THEN DecErr("InvalidLength")
         ELSE DecOk(Apdu(ty, Header(b[1], b[2], b[3], b[4]), <<>>, <<>>, <<>>, 0, <<>>), 4)
    ELSE IF ty \in EmptyTypes
    THEN DecOk(Apdu(ty, DefaultHeader, <<>>, <<>>, <<>>, 0, <<>>), 0)
    ELSE IF ty = "RunAppReq"
    THEN IF is_utf8(b)
         THEN DecOk(Apdu(ty, DefaultHeader, b, <<>>, <<>>, 0, <<>>), Len(b))
         ELSE DecErr("InvalidUtf8")
    ELSE IF ty = "AppInfoResp" THEN decode_app_info(b)
    ELSE IF ty = "DeviceInfoResp" THEN decode_device_info(b)
    ELSE DecOk(Apdu("GenericApdu", DefaultHeader, <<>>, <<>>, b, 0, <<>>), Len(b))

\* decode_app_data on data from *offset: a skipped byte, 4 bytes of flags
\* (big endian), two 32-byte hashes, a length byte and the name; every
\* slice or index out of range and every name that is not UTF-8 (unwrap)
\* is a panic. n is the offset after the entry.
decode_app_data(data, offset) ==
    LET o == offset + 1
        l == Len(data)
    IN IF o + 4 > l \/ o + 36 > l \/ o + 68 > l \/ o + 68 >= l THEN DecPanic
       ELSE IF o + 69 + data[o + 69] > l THEN DecPanic
       ELSE IF ~is_utf8(SubSeq(data, o + 70, o + 69 + data[o + 69])) THEN DecPanic
       ELSE DecOk(Apdu("AppData", DefaultHeader,
                       SubSeq(data, o + 70, o + 69 + data[o + 69]),
                       SubSeq(data, o + 37, o + 68), SubSeq(data, o + 5, o + 36),
                       ((data[o + 1] * 256 + data[o + 2]) * 256 + data[o + 3]) * 256
                       + data[o + 4], <<>>),
                  o + 69 + data[o + 69])

\* ------------------------------------------------------ Device::request
\* The values of StatusCode (a #[repr(u16)] enum with TryFromPrimitive).
StatusCodes == {38916, 38020, 28160, 38976, 38914, 27009, 27013, 38928,
                38920, 26159, 26158, 27273, 37892, 25344, 28586, 37896,
                27264, 26368, 27392, 27904, 27911, 26129, 38021, 37890,
                28482, 21781, 38992, 37440, 26624, 37888, 27268, 36864,
                25536, 27272, 27010, 28416, 27906, 21761, 20738}

\* ApduStatic::CLA and ::INS of the static request types.
StaticHeaders ==
    [AppInfoReq |-> Header(176, 1, 0, 0), DeviceInfoReq |-> Header(224, 1, 0, 0),
     ExitAppReq |-> Header(176, 167, 0, 0), RunAppReq |-> Header(224, 216, 0, 0),
     AppListStartReq |-> Header(224, 222, 0, 0),
     AppListNextReq |-> Header(224, 223, 0, 0)]

\* ApduReq::header: a GenericApdu exposes its own header, a static type has
\* its CLA and INS with p1() = p2() = 0.
header(req) == IF req.ty = "GenericApdu" THEN req.header ELSE StaticHeaders[req.ty]

\* Mutant of encode_request: the body length is not checked against u8::MAX
\* before it is written as one byte.
encode_request_unchecked(req, blen) ==
    LET data_len == encode_len(req)
        h == encode(Apdu("ApduHeader", header(req), <<>>, <<>>, <<>>, 0, <<>>), blen)
        body == encode(req, blen - (h.n + 1))
    IN IF blen < 5 + data_len THEN EncErr("InvalidLength")
       ELSE IF ~h.ok THEN EncErr(h.err)
       ELSE IF ~body.ok THEN EncErr(body.err)
       ELSE EncOk(h.bytes \o <<as_u8(data_len)>> \o body.bytes)

\* encode_request: the header, the data length, the data.
encode_request(req, blen) ==
    LET data_len == encode_len(req)
        h == encode(Apdu("ApduHeader", header(req), <<>>, <<>>, <<>>, 0, <<>>), blen)
        body == encode(req, blen - (h.n + 1))
    IN IF blen < 5 + data_len THEN EncErr("InvalidLength")
       ELSE IF ~h.ok THEN EncErr(h.err)
       ELSE IF data_len > U8Max THEN EncErr("InvalidLength")
       ELSE IF ~body.ok THEN EncErr(body.err)
       ELSE EncOk(h.bytes \o <<as_u8(data_len)>> \o body.bytes)

\* Results of Device::request: Ok(resp), Err(e) with e an Error of the
\* library (Status(code), UnknownStatus(b0, b1), Apdu(e), or a transport
\* error), or a panic of the decoder.
NoError == [kind |-> "none", a |-> 0, b |-> 0, apdu |-> "none"]
ErrStatus(c) == [kind |-> "Status", a |-> c, b |-> 0, apdu |-> "none"]
ErrUnknownStatus(b0, b1) == [kind |-> "UnknownStatus", a |-> b0, b |-> b1, apdu |-> "none"]
ErrApdu(e) == [kind |-> "Apdu", a |-> 0, b |-> 0, apdu |-> e]
ErrTransport(e) == [kind |-> e, a |-> 0, b |-> 0, apdu |-> "none"]
ReqOk(val) == [st |-> "Ok", err |-> NoError, val |-> val]
ReqErr(e) == [st |-> "Err", err |-> e, val |-> NoApduMsg]
ReqPanic == [st |-> "panic", err |-> NoError, val |-> NoApduMsg]

\* u16::from_be_bytes([b0, b1])
from_be_bytes(b0, b1) == b0 * 256 + b1

\* Mutant of status_error: the raw bytes of an unknown code are swapped.
status_error_swapped(b0, b1) ==
    IF from_be_bytes(b0, b1) \in StatusCodes
    THEN ErrStatus(from_be_bytes(b0, b1))
    ELSE ErrUnknownStatus(b1, b0)

\* The error of a status-only response: StatusCode::try_from(v) gives the
\* code of the table, or fails and the two raw bytes are kept.
status_error(b0, b1) ==
    IF from_be_bytes(b0, b1) \in StatusCodes
    THEN ErrStatus(from_be_bytes(b0, b1))
    ELSE ErrUnknownStatus(b0, b1)

\* Mutant of interpret: the two bytes of the success status are not an
\* error, they are decoded like a body.
interpret_ok_decoded(resp, bytes) ==
    IF Len(bytes) = 2 /\ from_be_bytes(bytes[1], bytes[2]) # 36864
    THEN ReqErr(status_error(bytes[1], bytes[2]))
    ELSE LET r == decode(resp, bytes)
         IN IF r.st = "Ok" THEN ReqOk(r.val)
            ELSE IF r.st = "Err" THEN ReqErr(ErrApdu(r.err))
            ELSE ReqPanic

\* The part of request that follows the copy of the response into the
\* buffer: the status-only case, then RESP::decode.
interpret(resp, bytes) ==
    IF Len(bytes) = 2
    THEN ReqErr(status_error(bytes[1], bytes[2]))
    ELSE LET r == decode(resp, bytes)
         IN IF r.st = "Ok" THEN ReqOk(r.val)
            ELSE IF r.st = "Err" THEN ReqErr(ErrApdu(r.err))
            ELSE ReqPanic

\* Device::request for a response type resp, a request req, a buffer of
\* blen bytes and an exchange that returns x (an error or the bytes).
request(resp, req, blen, x) ==
    IF ~encode_request(req, blen).ok THEN ReqErr(ErrApdu(encode_request(req, blen).err))
    ELSE IF x.err # "none" THEN ReqErr(ErrTransport(x.err))
    ELSE IF Len(x.bytes) > blen THEN ReqErr(ErrApdu("InvalidLength"))
    ELSE interpret(resp, x.bytes)

\* The byte every cell of the caller's buffer holds when request is called.
Untouched == 170

\* copy_from_slice on the head of a buffer: buff[..Len(bytes)] = bytes.
copy_from_slice(buff, bytes) ==
    [i \in 1 .. Len(buff) |-> IF i <= Len(bytes) THEN bytes[i] ELSE buff[i]]

\* What encode_request leaves in the buffer: nothing when the buffer is too
\* short for the request, the header alone when the data length does not
\* fit one byte, else the request as encoded.
encoded_into(req, buff) ==
    LET data_len == encode_len(req)
        h == encode(Apdu("ApduHeader", header(req), <<>>, <<>>, <<>>, 0, <<>>), Len(buff))
        e == encode_request(req, Len(buff))
    IN IF Len(buff) < 5 + data_len THEN buff
       ELSE IF ~h.ok THEN buff
       ELSE IF data_len > U8Max THEN copy_from_slice(buff, h.bytes)
       ELSE IF ~e.ok THEN copy_from_slice(buff, h.bytes \o <<as_u8(data_len)>>)
       ELSE copy_from_slice(buff, e.bytes)

\* The buffer after request when a response longer than the buffer is
\* copied as far as it fits.
request_buffer_clipped(req, buff, x) ==
    IF ~encode_request(req, Len(buff)).ok \/ x.err # "none" THEN encoded_into(req, buff)
    ELSE IF Len(x.bytes) > Len(buff)
    THEN copy_from_slice(encoded_into(req, buff), SubSeq(x.bytes, 1, Len(buff)))
    ELSE copy_from_slice(encoded_into(req, buff), x.bytes)

\* The caller's buffer after Device::request: the request as encoded, and
\* over it the response when the exchange returned one that fits.
request_buffer(req, buff, x) ==
    IF ~encode_request(req, Len(buff)).ok \/ x.err # "none" THEN encoded_into(req, buff)
    ELSE IF Len(x.bytes) > Len(buff) THEN encoded_into(req, buff)
    ELSE copy_from_slice(encoded_into(req, buff), x.bytes)

\* ---------------------------------------------------------- codec jobs
\* Longest raw response tried, besides the oversized ones.
MaxResp == 3

\* n bytes of ASCII text.
Fill(n) == [i \in 1 .. n |-> 65 + (i % 2)]

\* Sequences over S of length at most n.
SeqsUpTo(S, n) == UNION {[1 .. k -> S] : k \in 0 .. n}

\* The values encoded and decoded back: headers, unit requests, RunAppReq,
\* GenericApdu (default and explicit header), AppInfoResp (a name of 256
\* bytes among the names; flags empty, ONBOARDED, every defined flag, and
\* ONBOARDED with the undefined bit 6) and DeviceInfoResp.
Messages ==
    LET Strs == SeqsUpTo({65, 66}, MaxStr)
        Datas == SeqsUpTo({0, 144}, MaxStr)
        Headers == {DefaultHeader, Header(1, 2, 3, 4)}
    IN {Apdu("ApduHeader", h, <<>>, <<>>, <<>>, 0, <<>>) : h \in Headers}
       \cup {Apdu(t, DefaultHeader, <<>>, <<>>, <<>>, 0, <<>>) : t \in EmptyTypes}
       \cup {Apdu("RunAppReq", DefaultHeader, s, <<>>, <<>>, 0, <<>>) : s \in Strs}
       \cup {Apdu("GenericApdu", h, <<>>, <<>>, d, 0, <<>>) : h \in Headers, d \in Datas}
       \cup {Apdu("AppInfoResp", DefaultHeader, n, v, <<>>, f, <<>>) :
                n \in Strs \cup {Fill(U8Max + 1)}, v \in Strs, f \in {0, 4, 191, 68}}
       \cup {Apdu("DeviceInfoResp", DefaultHeader, se, mcu, fl, 0, <<51, 0, 0, 4>>) :
                se \in Strs, mcu \in Strs, fl \in Datas}

\* The requests encoded: unit requests, RunAppReq and GenericApdu with short
\* bodies and with bodies around the capacity of the scratch buffer and of
\* the length byte.
Requests ==
    LET Bodies == {Fill(n) : n \in (0 .. MaxStr) \cup {APDU_BUFF_LEN - 5,
                                    APDU_BUFF_LEN - 4, U8Max, U8Max + 1}}
    IN {Apdu(t, DefaultHeader, <<>>, <<>>, <<>>, 0, <<>>) : t \in EmptyTypes}
       \cup {Apdu("RunAppReq", DefaultHeader, s, <<>>, <<>>, 0, <<>>) : s \in Bodies}
       \cup {Apdu("GenericApdu", h, <<>>, <<>>, d, 0, <<>>) :
                h \in {DefaultHeader, Header(1, 2, 3, 4)}, d \in Bodies}

\* The k-th buffer length tried for an encoding that needs n bytes: none,
\* a header's, one byte short, exact, one byte over, the scratch buffer's.
BuffLens(n, k) == <<0, 4, IF n > 0 THEN n - 1 ELSE 0, n, n + 1, APDU_BUFF_LEN>>[k]

\* encode then decode of each value, per buffer length.
RoundTripJobs ==
    {[op |-> "round_trip", m |-> m, resp |-> m.ty,
      len |-> BuffLens(encode_len(m), k), xerr |-> "none", bytes |-> <<>>] :
        m \in Messages, k \in 1 .. 6}

\* encode_request of each request, per buffer length.
EncodeJobs ==
    {[op |-> "encode_request", m |-> m, resp |-> "none",
      len |-> BuffLens(5 + encode_len(m), k), xerr |-> "none", bytes |-> <<>>] :
        m \in Requests, k \in 1 .. 6}

\* Device::request of a request, per response type, buffer length and
\* result of the exchange: an error, or raw bytes (every sequence of at
\* most MaxResp sampled bytes, and two longer than a buffer tried).
RequestJobs ==
    LET Exchanged == {[err |-> "none", bytes |-> b] :
                         b \in SeqsUpTo({0, 1, 65, 144, 85, 21}, MaxResp)
                               \cup {Fill(6), Fill(APDU_BUFF_LEN + 1)}}
                     \cup {[err |-> "Timeout", bytes |-> <<>>]}
        Issued == {Apdu("AppInfoReq", DefaultHeader, <<>>, <<>>, <<>>, 0, <<>>),
                   Apdu("GenericApdu", Header(1, 2, 3, 4), <<>>, <<>>, <<0>>, 0, <<>>)}
    IN {[op |-> "request", m |-> m, resp |-> r, len |-> l, xerr |-> x.err,
         bytes |-> x.bytes] :
           m \in Issued, r \in {"GenericApdu", "AppInfoResp", "DeviceInfoResp"},
           l \in {4, 5, 6, APDU_BUFF_LEN}, x \in Exchanged}

\* A response decoder on raw bytes of the device: every sequence of at
\* most MaxResp sampled bytes, a length byte pointing past the end, and
\* application-list entries that are truncated, complete, and complete
\* with a name that is not UTF-8.
DecodeJobs ==
    {[op |-> "decode", m |-> NoApduMsg, resp |-> r, len |-> 0, xerr |-> "none",
      bytes |-> b] :
        r \in {"AppInfoResp", "DeviceInfoResp", "AppData"},
        b \in SeqsUpTo({0, 1, 65, 144, 85, 21}, MaxResp)
              \cup {<<1, 5, 65>>, Fill(70), Fill(69) \o <<1, 65>>,
                    Fill(69) \o <<1, 255>>}}

\* ------------------------------------------------------- codec actions
\* One call of Device::request.
DoRequest ==
    /\ job.op = "request" /\ out.st = "none"
    /\ LET x == [err |-> job.xerr, bytes |-> job.bytes]
           r == request(job.resp, job.m, job.len, x)
       IN out' = [st |-> r.st, err |-> r.err, val |-> r.val,
                  buff |-> request_buffer(job.m, [i \in 1 .. job.len |-> Untouched], x)]
    /\ UNCHANGED <<job, ble, pvars, lvars>>

\* One call of encode into a buffer of job.len bytes, then, if it wrote,
\* of decode on the bytes written (tests::encode_decode).
DoRoundTrip ==
    /\ job.op = "round_trip" /\ out.st = "none"
    /\ LET a == encode(job.m, job.len)
       IN out' = [st |-> "done", enc |-> a,
                  dec |-> IF a.ok THEN decode(job.m.ty, a.bytes) ELSE DecErr("none")]
    /\ UNCHANGED <<job, ble, pvars, lvars>>

\* One call of encode_request into a buffer of job.len bytes.
DoEncodeRequest ==
    /\ job.op = "encode_request" /\ out.st = "none"
    /\ out' = [st |-> "done", enc |-> encode_request(job.m, job.len)]
    /\ UNCHANGED <<job, ble, pvars, lvars>>

\* One call of a response decoder on the bytes of the job.
DoDecode ==
    /\ job.op = "decode" /\ out.st = "none"
    /\ out' = IF job.resp = "AppData" THEN decode_app_data(job.bytes, 0)
              ELSE decode(job.resp, job.bytes)
    /\ UNCHANGED <<job, ble, pvars, lvars>>

CodecInit ==
    /\ ProviderInit /\ LaunchIdle
    /\ job \in RoundTripJobs \cup EncodeJobs \cup RequestJobs \cup DecodeJobs
    /\ out = NoOut /\ ble = BleNew

CodecNext == DoRequest \/ DoRoundTrip \/ DoEncodeRequest \/ DoDecode

CodecSpec == CodecInit /\ [][CodecNext]_vars

\* Device::request answered with each of the 2^16 status-only responses.
StatusInit ==
    /\ ProviderInit /\ LaunchIdle
    /\ job \in {[op |-> "request",
                 m |-> Apdu("AppInfoReq", DefaultHeader, <<>>, <<>>, <<>>, 0, <<>>),
                 resp |-> "AppInfoResp", len |-> APDU_BUFF_LEN, xerr |-> "none",
                 bytes |-> <<b0, b1>>] : b0 \in 0 .. U8Max, b1 \in 0 .. U8Max}
    /\ out = NoOut /\ ble = BleNew

StatusNext == DoRequest

StatusSpec == StatusInit /\ [][StatusNext]_vars

\* ========================================================== codec claims
\* The exchange of the request of the job took place and returned bytes.
ExchangeReturned ==
    /\ job.op = "request" /\ out.st # "none"
    /\ job.len >= 5 + encode_len(job.m) /\ encode_len(job.m) <= U8Max
    /\ job.xerr = "none"

\* C18: Device::request returns every raw response of exactly 2 bytes as a
\* status error and never decodes it as a body, whatever the response type
\* (GenericApdu included) and whatever the code (0x9000 included): a code of
\* the StatusCode table gives Error::Status(code), any other gives
\* Error::UnknownStatus(b0, b1) with the two raw bytes.
C18_StatusOnly ==
    (ExchangeReturned /\ Len(job.bytes) = 2)
    => /\ out.st = "Err"
       /\ out.val = NoApduMsg
       /\ LET v == job.bytes[1] * 256 + job.bytes[2]
          IN IF v \in StatusCodes
             THEN out.err = ErrStatus(v)
             ELSE out.err = ErrUnknownStatus(job.bytes[1], job.bytes[2])

\* C18 witness: a request for a GenericApdu was answered 0x90 0x00, which
\* GenericApdu would decode, and returned Error::Status(Ok).
C18_Witness ==
    /\ ExchangeReturned /\ job.resp = "GenericApdu" /\ job.bytes = <<144, 0>>
    /\ decode(job.resp, job.bytes).st = "Ok"
    /\ out.st = "Err" /\ out.err.kind = "Status" /\ out.err.a = 36864

\* The body a request is encoded to.
Body(m) == IF m.ty = "RunAppReq" THEN m.s1 ELSE IF m.ty = "GenericApdu" THEN m.data ELSE <<>>

\* C20: encode_request writes the header as class, instruction, P1, P2 (the
\* header {1, 2, 3, 4} as [1, 2, 3, 4]; a static message its CLA and INS
\* with P1 = P2 = 0), then one byte with the body length, then the body, and
\* returns 5 + body length; when the buffer is shorter than 5 + body length
\* or the body is longer than 255 bytes it returns the InvalidLength error
\* (a result, not a panic).
C20_EncodeRequest ==
    (job.op = "encode_request" /\ out.st = "done")
    => LET L == Len(Body(job.m))
           h == IF job.m.ty = "GenericApdu" THEN job.m.header
                ELSE Header(StaticHeaders[job.m.ty].cla, StaticHeaders[job.m.ty].ins, 0, 0)
       IN /\ (job.len < 5 + L \/ L > 255) => out.enc = EncErr("InvalidLength")
          /\ (job.len >= 5 + L /\ L <= 255)
             => /\ out.enc.ok /\ out.enc.n = 5 + L
                /\ out.enc.bytes = <<h.cla, h.ins, h.p1, h.p2, L>> \o Body(job.m)
          /\ (out.enc.ok /\ job.m.ty = "GenericApdu" /\ job.m.header = Header(1, 2, 3, 4))
             => SubSeq(out.enc.bytes, 1, 4) = <<1, 2, 3, 4>>
          /\ (out.enc.ok /\ job.m.ty = "AppInfoReq")
             => out.enc.bytes = <<176, 1, 0, 0, 0>>

\* C20 witness: a request with the header {1, 2, 3, 4} and a body that
\* fills the 256-byte buffer exactly was encoded to 256 bytes that start
\* with 1, 2, 3, 4 and the body length.
C20_Witness ==
    /\ job.op = "encode_request" /\ out.st = "done"
    /\ job.m.ty = "GenericApdu" /\ job.m.header = Header(1, 2, 3, 4)
    /\ job.len = APDU_BUFF_LEN /\ Len(job.m.data) = APDU_BUFF_LEN - 5
    /\ out.enc.ok /\ out.enc.n = APDU_BUFF_LEN
    /\ SubSeq(out.enc.bytes, 1, 5) = <<1, 2, 3, 4, APDU_BUFF_LEN - 5>>

\* The values the round trip is claimed for: each string and byte field
\* has a length that fits its length byte, the target id has 4 bytes and
\* the flags are among the defined ones.
Valid(m) ==
    /\ Len(m.s1) <= U8Max /\ Len(m.s2) <= U8Max /\ Len(m.data) <= U8Max
    /\ m.ty = "DeviceInfoResp" => Len(m.id) = 4
    /\ (m.flags \div 64) % 2 = 0

\* A valid value was encoded into a buffer that holds it, and decoded back.
RoundTripped == job.op = "round_trip" /\ out.st = "done" /\ Valid(job.m) /\ out.enc.ok

\* C19 as stated: for every message type and every valid value m that fits
\* the buffer, decoding the bytes encode produced gives a value equal to m
\* and consumes exactly the bytes encode wrote.
C19_RoundTrip ==
    RoundTripped
    => /\ out.dec.st = "Ok"
       /\ out.dec.val = job.m
       /\ out.dec.n = out.enc.n

\* C19 amended: the same, except that a GenericApdu is decoded with the
\* default header (its header is not part of its encoding), so that the
\* decoded value equals m exactly when m's header is the default one.
C19_RoundTripBody ==
    RoundTripped
    => /\ out.dec.st = "Ok"
       /\ out.dec.n = out.enc.n
       /\ IF job.m.ty = "GenericApdu"
          THEN /\ out.dec.val = [job.m EXCEPT !.header = DefaultHeader]
               /\ out.dec.val = job.m <=> job.m.header = DefaultHeader
          ELSE out.dec.val = job.m

\* C19 witness: an AppInfoResp with a name, a version and every defined
\* flag was encoded into a buffer of exactly its length and decoded back
\* to an equal value.
C19_Witness ==
    /\ RoundTripped /\ job.m.ty = "AppInfoResp"
    /\ job.m.s1 # <<>> /\ job.m.s2 # <<>> /\ job.m.flags = 191
    /\ job.len = encode_len(job.m)
    /\ out.dec.st = "Ok" /\ out.dec.val = job.m /\ out.dec.n = job.len

\* C21: no response decoder panics on bytes of the device: for every byte
\* sequence (empty, truncated, with a length field pointing past the end)
\* AppInfoResp::decode, DeviceInfoResp::decode and decode_app_data return a
\* value or one of the decode errors InvalidLength, InvalidUtf8,
\* InvalidVersion.
C21_DecodeTotal ==
    (job.op = "decode" /\ out.st # "none")
    => \/ out.st = "Ok"
       \/ out.st = "Err" /\ out.err \in {"InvalidLength", "InvalidUtf8", "InvalidVersion"}

\* C22: the interpretation of a status is total: each of the 2^16 values
\* gives its named status when it is in the StatusCode table (0x9000 gives
\* Ok) and otherwise the unrecognised fallback with exactly the two raw
\* bytes in order (0x12, 0x34 gives UnknownStatus(0x12, 0x34)); the lookup
\* never fails otherwise and never panics.
C22_StatusTotal ==
    (job.op = "request" /\ Len(job.bytes) = 2 /\ out.st # "none")
    => LET v == job.bytes[1] * 256 + job.bytes[2]
       IN /\ out.st = "Err"
          /\ \/ v \in StatusCodes /\ out.err = ErrStatus(v)
             \/ v \notin StatusCodes /\ out.err = ErrUnknownStatus(job.bytes[1], job.bytes[2])
          /\ v = 36864 => out.err = ErrStatus(36864)
          /\ job.bytes = <<18, 52>> => out.err = ErrUnknownStatus(18, 52)

\* C22 witness: the response 0x12 0x34 was returned as
\* UnknownStatus(0x12, 0x34).
C22_Witness ==
    /\ job.op = "request" /\ job.bytes = <<18, 52>>
    /\ out.st = "Err" /\ out.err.kind = "UnknownStatus"
    /\ out.err.a = 18 /\ out.err.b = 52

\* ============================================================ transports
\* HID packet length (header + data) and header length.
HID_PACKET_LEN == 64
HID_HEADER_LEN == 5

\* Most reads of continuation packets an exchange is given.
MaxConts == 2

\* (n as u16).to_be_bytes()
to_be_bytes(n) == <<(n \div 256) % 256, n % 256>>

\* data.chunks(size): consecutive slices of size elements, the last one
\* possibly shorter.
chunks(data, size) ==
    [i \in 1 .. ((Len(data) + size - 1) \div size) |->
        SubSeq(data, (i - 1) * size + 1,
               IF i * size < Len(data) THEN i * size ELSE Len(data))]

\* Mutant of hid_packets: every packet carries the sequence index 0.
hid_packets_unnumbered(apdu) ==
    LET c == chunks(to_be_bytes(Len(apdu)) \o apdu, HID_PACKET_LEN - HID_HEADER_LEN)
    IN [i \in DOMAIN c |-> <<0, 1, 1, 5>> \o to_be_bytes(0) \o c[i]]

\* The HID packets UsbDevice::write builds for an APDU.
hid_packets(apdu) ==
    LET c == chunks(to_be_bytes(Len(apdu)) \o apdu, HID_PACKET_LEN - HID_HEADER_LEN)
    IN [i \in DOMAIN c |-> <<0, 1, 1, 5>> \o to_be_bytes(i - 1) \o c[i]]

\* UsbDevice::write: the packets go to the device one by one; when the
\* device refuses the fail-th, the error is returned and the rest is not
\* written (fail = 0: the device takes them all).
usb_write(apdu, fail) ==
    IF fail \in DOMAIN hid_packets(apdu)
    THEN [st |-> "Err", err |-> "Hid", packets |-> SubSeq(hid_packets(apdu), 1, fail - 1)]
    ELSE [st |-> "Ok", err |-> "none", packets |-> hid_packets(apdu)]

\* a.min(b)
Min(a, b) == IF a < b THEN a ELSE b

\* The k-th read_timeout of a read: the bytes the device sent, an error of
\* the HID layer, or 0 bytes when the device sends nothing more.
ReadAt(reads, k) == IF k \in DOMAIN reads THEN reads[k] ELSE [err |-> "none", bytes |-> <<>>]

\* Results of UsbDevice::read, with the number of reads made.
ReadOk(resp, used) == [st |-> "Ok", err |-> "none", val |-> resp, used |-> used]
ReadErr(e, used) == [st |-> "Err", err |-> e, val |-> <<>>, used |-> used]

\* Mutant of read_chunks: every byte after the header of a following chunk
\* is taken, whatever is still missing.
RECURSIVE read_chunks_unclipped(_, _, _, _)
read_chunks_unclipped(resp, len, seq_idx, reads) ==
    IF Len(resp) >= len THEN ReadOk(resp, seq_idx)
    ELSE LET r == ReadAt(reads, seq_idx + 1)
             n == Len(r.bytes)
         IN IF r.err # "none" THEN ReadErr(r.err, seq_idx + 1)
            ELSE IF n < 5 THEN ReadErr("UnexpectedResponse", seq_idx + 1)
            ELSE IF SubSeq(r.bytes, 1, 3) # <<1, 1, 5>>
            THEN ReadErr("UnexpectedResponse", seq_idx + 1)
            ELSE IF r.bytes[4] * 256 + r.bytes[5] # seq_idx
            THEN ReadErr("UnexpectedResponse", seq_idx + 1)
            ELSE read_chunks_unclipped(resp \o SubSeq(r.bytes, 6, n), len, seq_idx + 1,
                                       reads)

\* The loop of UsbDevice::read over the following chunks, as long as the
\* response is shorter than the length announced.
RECURSIVE read_chunks(_, _, _, _)
read_chunks(resp, len, seq_idx, reads) ==
    IF Len(resp) >= len THEN ReadOk(resp, seq_idx)
    ELSE LET r == ReadAt(reads, seq_idx + 1)
             n == Len(r.bytes)
         IN IF r.err # "none" THEN ReadErr(r.err, seq_idx + 1)
            ELSE IF n < 5 THEN ReadErr("UnexpectedResponse", seq_idx + 1)
            ELSE IF SubSeq(r.bytes, 1, 3) # <<1, 1, 5>>
            THEN ReadErr("UnexpectedResponse", seq_idx + 1)
            ELSE IF r.bytes[4] * 256 + r.bytes[5] # seq_idx
            THEN ReadErr("UnexpectedResponse", seq_idx + 1)
            ELSE read_chunks(resp \o SubSeq(r.bytes, 6, 5 + Min(len - Len(resp), n - 5)),
                             len, seq_idx + 1, reads)

\* Mutant of usb_read: a first read of 0 bytes is reported like a short one.
usb_read_short_empty(reads) ==
    LET r == ReadAt(reads, 1)
        n == Len(r.bytes)
        len == r.bytes[6] * 256 + r.bytes[7]
    IN IF r.err # "none" THEN ReadErr(r.err, 1)
       ELSE IF n < 7 THEN ReadErr("UnexpectedResponse", 1)
       ELSE IF SubSeq(r.bytes, 1, 5) # <<1, 1, 5, 0, 0>> THEN ReadErr("UnexpectedResponse", 1)
       ELSE read_chunks(SubSeq(r.bytes, 8, 7 + Min(len, n - 7)), len, 1, reads)

\* Mutant of usb_read: the first packet is accepted with any sequence index.
usb_read_any_first(reads) ==
    LET r == ReadAt(reads, 1)
        n == Len(r.bytes)
        len == r.bytes[6] * 256 + r.bytes[7]
    IN IF r.err # "none" THEN ReadErr(r.err, 1)
       ELSE IF n = 0 THEN ReadErr("EmptyResponse", 1)
       ELSE IF n < 7 THEN ReadErr("UnexpectedResponse", 1)
       ELSE IF SubSeq(r.bytes, 1, 3) # <<1, 1, 5>> THEN ReadErr("UnexpectedResponse", 1)
       ELSE read_chunks(SubSeq(r.bytes, 8, 7 + Min(len, n - 7)), len, 1, reads)

\* UsbDevice::read: the first chunk with the length, then the others.
usb_read(reads) ==
    LET r == ReadAt(reads, 1)
        n == Len(r.bytes)
        len == r.bytes[6] * 256 + r.bytes[7]
    IN IF r.err # "none" THEN ReadErr(r.err, 1)
       ELSE IF n = 0 THEN ReadErr("EmptyResponse", 1)
       ELSE IF n < 7 THEN ReadErr("UnexpectedResponse", 1)
       ELSE IF SubSeq(r.bytes, 1, 5) # <<1, 1, 5, 0, 0>> THEN ReadErr("UnexpectedResponse", 1)
       ELSE read_chunks(SubSeq(r.bytes, 8, 7 + Min(len, n - 7)), len, 1, reads)

\* Model::from_pid: the top byte selects the model; any other product id
\* is kept whole in Model::Unknown.
from_pid(pid) ==
    IF (pid \div 256) * 256 = 16384 THEN [name |-> "NanoX", pid |-> 0]
    ELSE IF (pid \div 256) * 256 = 20480 THEN [name |-> "NanoSPlus", pid |-> 0]
    ELSE [name |-> "Unknown", pid |-> pid]

\* The LedgerInfo UsbTransport::list builds for a HID device.
usb_info(pid, path) == Info(from_pid(pid), "Usb", path)

\* ------------------------------------------------------- transport jobs
\* APDUs written: empty, one byte, and lengths around one, two and four
\* packets, filled with bytes that differ from one position to the next.
UsbWriteJobs ==
    {[op |-> "usb_write", apdu |-> [i \in 1 .. n |-> (7 * i) % 256], fail |-> f] :
        n \in {0, 1, 56, 57, 58, 115, 116, 117, 200}, f \in 0 .. 2}

\* What the device sends back: a first read (nothing, short ones, a header
\* with a wrong channel, tag or index, a correct one announcing 0 to 6
\* bytes and carrying 0 or 2) and at most MaxConts further reads (an error
\* of the HID layer, short ones, a wrong tag, the indices 0 to 3 with 0 or
\* 2 bytes).
UsbReadJobs ==
    LET Sent(b) == [err |-> "none", bytes |-> b]
        Firsts == {[err |-> "Timeout", bytes |-> <<>>], [err |-> "Hid", bytes |-> <<>>]}
                  \cup {Sent(b) : b \in {<<>>, <<1>>, <<1, 1, 5>>, <<1, 1, 5, 0, 0, 0>>,
                                        <<1, 1, 5, 0, 1, 0, 2, 8, 9>>,
                                        <<2, 1, 5, 0, 0, 0, 2, 8, 9>>,
                                        <<1, 1, 6, 0, 0, 0, 2, 8, 9>>}}
                  \cup {Sent(<<1, 1, 5, 0, 0, 0, l>> \o d) :
                           l \in {0, 2, 4, 6}, d \in {<<>>, <<8, 9>>}}
        Conts == {[err |-> "Hid", bytes |-> <<>>]}
                 \cup {Sent(b) : b \in {<<>>, <<1, 1, 5, 0>>, <<1, 1, 6, 0, 1, 6, 7>>}}
                 \cup {Sent(<<1, 1, 5, 0, k>> \o d) : k \in 0 .. 3, d \in {<<>>, <<6, 7>>}}
    IN {[op |-> "usb_read", reads |-> <<f>> \o c] :
           f \in Firsts, c \in SeqsUpTo(Conts, MaxConts)}

\* Product ids of a device when it was connected and when it is listed
\* again: Nano X (0x40..), Nano S Plus (0x50..), and ids of models
\* from_pid does not name (0x10.., 0x60..).
UsbListJobs ==
    {[op |-> "usb_list", pid |-> a, new_pid |-> b] :
        a \in {16401, 20497, 4113, 24593},
        b \in {16401, 16405, 20497, 20501, 4113, 4117, 24593, 24597}}

\* ---------------------------------------------------- transport actions
\* One call of UsbDevice::write.
UsbWrite ==
    /\ job.op = "usb_write" /\ out.st = "none"
    /\ out' = usb_write(job.apdu, job.fail)
    /\ UNCHANGED <<job, ble, pvars, lvars>>

\* One call of UsbDevice::read.
UsbRead ==
    /\ job.op = "usb_read" /\ out.st = "none"
    /\ out' = usb_read(job.reads)
    /\ UNCHANGED <<job, ble, pvars, lvars>>

\* A device connected under one product id is listed again by
\* UsbTransport::list under another, and reconnect looks for it.
UsbList ==
    /\ job.op = "usb_list" /\ out.st = "none"
    /\ out' = [st |-> "done", info |-> usb_info(job.pid, "p1"),
               listed |-> <<usb_info(job.new_pid, "p2")>>,
               found |-> find(<<usb_info(job.new_pid, "p2")>>, usb_info(job.pid, "p1"))]
    /\ UNCHANGED <<job, ble, pvars, lvars>>

\* ------------------------------------------------------------ TCP framing
\* Longest tail of a response stream after its first four bytes.
MaxTail == 4

\* (n as u32).to_be_bytes().
to_be_bytes32(n) ==
    <<(n \div 16777216) % 256, (n \div 65536) % 256, (n \div 256) % 256, n % 256>>

\* u32::from_be_bytes(b).
from_be_bytes32(b) == b[1] * 16777216 + b[2] * 65536 + b[3] * 256 + b[4]

\* TcpDevice::write_command: one buffer of the 4-byte length and the request
\* handed to write_all; wfail is write_all returning an error.
tcp_write(req, wfail) ==
    IF wfail THEN [st |-> "Err", err |-> "Tcp", sent |-> <<>>]
    ELSE [st |-> "Ok", err |-> NoError, sent |-> to_be_bytes32(Len(req)) \o req]

\* What a read_exact that cannot be filled ends in: the peer closed the
\* stream (an io error), or nothing more arrives and the timeout of
\* exchange fires.
tcp_short(end) == IF end = "eof" THEN "Tcp" ELSE "Timeout"

\* TcpDevice::read_data with the length taken as the whole count of bytes
\* that follow.
tcp_read_no_status(stream, end) ==
    IF Len(stream) < 4 THEN ReadErr(tcp_short(end), Len(stream))
    ELSE LET n == from_be_bytes32(SubSeq(stream, 1, 4))
         IN IF Len(stream) < 4 + n THEN ReadErr(tcp_short(end), Len(stream))
            ELSE ReadOk(SubSeq(stream, 5, 4 + n), 4 + n)

\* TcpDevice::read_data under the timeout of exchange: stream is what the
\* peer sends, used the count of bytes taken from it.
tcp_read(stream, end) ==
    IF Len(stream) < 4 THEN ReadErr(tcp_short(end), Len(stream))
    ELSE LET n == from_be_bytes32(SubSeq(stream, 1, 4)) + 2
         IN IF Len(stream) < 4 + n THEN ReadErr(tcp_short(end), Len(stream))
            ELSE ReadOk(SubSeq(stream, 5, 4 + n), 4 + n)

\* TcpDevice::exchange.
tcp_exchange(req, stream, end, wfail) ==
    LET w == tcp_write(req, wfail)
    IN IF w.st = "Err"
       THEN [st |-> "Err", err |-> w.err, sent |-> w.sent, resp |-> <<>>, used |-> 0]
       ELSE LET r == tcp_read(stream, end)
            IN [st |-> r.st, err |-> r.err, sent |-> w.sent, resp |-> r.val,
                used |-> r.used]

TcpJobs ==
    LET Lengths == {<<0, 0, 0, 0>>, <<0, 0, 0, 1>>, <<0, 0, 0, 2>>, <<0, 0, 1, 0>>,
                    <<1, 0, 0, 0>>}
        Streams == SeqsUpTo({0}, 3)
                   \cup {l \o t : l \in Lengths, t \in SeqsUpTo({7, 144, 0}, MaxTail)}
    IN {[op |-> "tcp", req |-> q, stream |-> s, end |-> e, wfail |-> f] :
          q \in {<<>>, <<224>>, <<224, 1, 0, 0>>, Fill(APDU_BUFF_LEN + 5)},
          s \in Streams, e \in {"eof", "stall"}, f \in BOOLEAN}

TcpExchange ==
    /\ job.op = "tcp" /\ out.st = "none"
    /\ out' = tcp_exchange(job.req, job.stream, job.end, job.wfail)
    /\ UNCHANGED <<job, ble, pvars, lvars>>

\* ---------------------------------------------------------- BLE transport
BLE_HEADER_LEN == 3

\* Most notifications of one response.
MaxNotifs == 2

\* The models BLE_SPECS has an entry for.
BLE_SPECS == {"NanoX", "Stax"}

\* What a scan may see: peripherals with a Ledger name, with another name
\* and with no local name ("none").
Peripherals ==
    {BleInfo("Nano X 1A", "a1"), BleInfo("Ledger Stax 2B", "a2"),
     BleInfo("Headset", "a3"), BleInfo("none", "a4")}

\* name.contains("Nano X") and name.contains("Stax") on the names above.
contains(name, pat) ==
    \/ pat = "Nano X" /\ name \in {"Nano X 1A", "Nano X 9Z"}
    \/ pat = "Stax" /\ name = "Ledger Stax 2B"

\* scan_internal on a scan that succeeded: peripherals without a local name
\* or with a name of no known model are skipped, the others are listed in
\* the order seen.
RECURSIVE scan_internal(_)
scan_internal(seen) ==
    IF seen = <<>> THEN <<>>
    ELSE LET p == Head(seen)
             rest == scan_internal(Tail(seen))
         IN IF p.name = "none" THEN rest
            ELSE IF contains(p.name, "Nano X")
                 THEN <<[model |-> "NanoX", conn |-> p]>> \o rest
            ELSE IF contains(p.name, "Stax")
                 THEN <<[model |-> "Stax", conn |-> p]>> \o rest
            ELSE rest

\* BleTransport::list that keeps the devices of earlier scans.
ble_list_append(b, seen, fail) ==
    IF fail THEN [ble |-> b, out |-> [st |-> "Err", op |-> "list", err |-> "Ble"]]
    ELSE LET found == scan_internal(seen)
         IN [ble |-> [b EXCEPT !.peripherals = b.peripherals \o found,
                               !.scan = found],
             out |-> [st |-> "Ok", op |-> "list", err |-> NoError, listed |-> found]]

\* BleTransport::list: a scan that fails returns its error before anything
\* is stored; otherwise the devices found become the known peripherals.
ble_list(b, seen, fail) ==
    IF fail THEN [ble |-> b, out |-> [st |-> "Err", op |-> "list", err |-> "Ble"]]
    ELSE LET found == scan_internal(seen)
         IN [ble |-> [b EXCEPT !.peripherals = found, !.scan = found],
             out |-> [st |-> "Ok", op |-> "list", err |-> NoError, listed |-> found]]

\* The position of the first known peripheral whose conn equals info, 0 for
\* none.
ble_find(peripherals, info) ==
    IF \E i \in 1 .. Len(peripherals) : peripherals[i].conn = info
    THEN CHOOSE i \in 1 .. Len(peripherals) :
            /\ peripherals[i].conn = info
            /\ \A j \in 1 .. (i - 1) : peripherals[j].conn # info
    ELSE 0

\* The steps of connect that can fail after the peripheral was matched, and
\* the error each returns.
ConnectSteps ==
    {"ok", "properties", "is_connected", "connect", "not_connected",
     "discover_services", "characteristics"}

connect_error(step) ==
    IF step \in {"properties", "is_connected", "discover_services"} THEN "Ble"
    ELSE "Unknown"

\* The ways fetch_mtu ends: with the mtu read from a response of 6 bytes
\* tagged 0x08, or at the step that failed.
MtuSteps == {"ok", "subscribe", "notifications", "write", "unexpected", "none",
             "unsubscribe"}

\* fetch_mtu on a peripheral whose subscription is sub: the mtu connect
\* keeps and the subscription left behind. Only the path that reads a
\* well-formed response and unsubscribes ends unsubscribed.
fetch_mtu(sub, step, mtu) ==
    [mtu |-> IF step = "ok" THEN mtu ELSE 23,
     subscribed |-> IF step = "subscribe" THEN sub ELSE step # "ok"]

\* BleTransport::connect. touched records whether any call was made on a
\* peripheral.
ble_connect(b, info, step, mstep, mtu) ==
    LET i == ble_find(b.peripherals, info)
    IN IF i = 0
       THEN [ble |-> b,
             out |-> [st |-> "Err", op |-> "connect", err |-> "NoDevices",
                      info |-> info, touched |-> FALSE]]
       ELSE IF b.peripherals[i].model \notin BLE_SPECS
       THEN [ble |-> b,
             out |-> [st |-> "Err", op |-> "connect", err |-> "Unknown",
                      info |-> info, touched |-> TRUE]]
       ELSE IF step # "ok"
       THEN [ble |-> b,
             out |-> [st |-> "Err", op |-> "connect", err |-> connect_error(step),
                      info |-> info, touched |-> TRUE]]
       ELSE LET m == fetch_mtu(IF b.dev = info THEN b.subscribed ELSE FALSE,
                               mstep, mtu)
            IN [ble |-> [b EXCEPT !.dev = info, !.mtu = m.mtu,
                                  !.subscribed = m.subscribed],
                out |-> [st |-> "Ok", op |-> "connect", err |-> NoError,
                         info |-> info, touched |-> TRUE]]

\* BleDevice::write_command: the chunks written for a command, each with the
\* command byte (0x03 after the first) and its index as 2 bytes.
ble_packets(cmd, payload, mtu) ==
    LET data == to_be_bytes(Len(payload)) \o payload
        cs == chunks(data, mtu - BLE_HEADER_LEN)
    IN [i \in 1 .. Len(cs) |->
          <<IF i = 1 THEN cmd ELSE 3>> \o to_be_bytes(i - 1) \o cs[i]]

\* The loop of read_data: while buff is shorter than len the next
\* notification is awaited and everything after its first 5 bytes appended.
\* A stream that ends is answered with unsubscribe and Unknown, one that
\* stalls runs into the timeout of exchange; v[5..] of a notification of
\* fewer than 5 bytes panics.
RECURSIVE ble_chunks(_, _, _, _, _, _)
ble_chunks(buff, len, notifs, k, end, ufail) ==
    IF Len(buff) >= len THEN ReadOk(buff, k - 1)
    ELSE IF k > Len(notifs)
    THEN IF end = "stall" THEN ReadErr("Timeout", k - 1)
         ELSE ReadErr(IF ufail THEN "Ble" ELSE "Unknown", k - 1)
    ELSE IF Len(notifs[k]) < 5 THEN [st |-> "Panic", err |-> NoError, val |-> <<>>,
                                     used |-> k]
    ELSE ble_chunks(buff \o SubSeq(notifs[k], 6, Len(notifs[k])), len, notifs,
                    k + 1, end, ufail)

\* BleDevice::read_data under the timeout of exchange: notifs is what the
\* peripheral notifies, end whether the stream then closes or stalls, ufail
\* whether unsubscribe fails, used the count of notifications taken.
ble_read_data(notifs, end, ufail) ==
    IF notifs = <<>>
    THEN ReadErr(IF end = "stall" THEN "Timeout" ELSE "Unknown", 0)
    ELSE LET v == notifs[1]
         IN IF Len(v) < 5 THEN ReadErr("Unknown", 1)
            ELSE IF v[1] # 5 THEN ReadErr("Unknown", 1)
            ELSE ble_chunks(SubSeq(v, 6, Len(v)), v[5], notifs, 2, end, ufail)

\* The ways an exchange can fail before it reads.
ExchangeSteps == {"ok", "subscribe", "notifications", "write"}

\* BleDevice::exchange on the device of b: subscribe, take the notification
\* stream, write the command, read the response under the timeout.
\* unsubscribe is called where the write or the read failed, and its own
\* failure is returned in place of theirs; the response is returned as read.
\* sent are the packets of a command written whole.
ble_exchange(b, command, step, notifs, end, ufail) ==
    LET Ret(st, e, val, sub, did) ==
            [ble |-> [b EXCEPT !.subscribed = sub],
             out |-> [st |-> st, op |-> "exchange", err |-> e, val |-> val,
                      command |-> command, notifs |-> notifs,
                      sent |-> IF step = "ok" THEN ble_packets(5, command, b.mtu)
                               ELSE <<>>,
                      subscribed_here |-> did]]
        r == ble_read_data(notifs, end, ufail)
    IN IF step = "subscribe" THEN Ret("Err", "Ble", <<>>, b.subscribed, FALSE)
       ELSE IF step = "notifications" THEN Ret("Err", "Ble", <<>>, TRUE, TRUE)
       ELSE IF step = "write" \/ r.st = "Err"
       THEN IF ufail THEN Ret("Err", "Ble", <<>>, TRUE, TRUE)
            ELSE Ret("Err", IF step = "write" THEN "Ble" ELSE r.err, <<>>, FALSE, TRUE)
       ELSE IF r.st = "Panic" THEN Ret("Panic", NoError, <<>>, TRUE, TRUE)
       ELSE Ret("Ok", NoError, r.val, TRUE, TRUE)

\* Notifications of a response: first ones with and without the marker,
\* with a payload shorter than, equal to and longer than the declared
\* length, and continuations of 3 to 7 bytes.
Notifications ==
    LET Firsts == {<<5, 0, 0, 0, 0>>, <<5, 0, 0, 0, 2, 65, 66>>, <<5, 0, 0, 0, 1, 65, 66>>,
                   <<5, 0, 0, 0, 4, 65, 66>>, <<5, 0, 0, 0, 3, 65>>, <<3, 0, 0, 0, 2, 65, 66>>,
                   <<5, 0, 0, 0>>}
        Conts == {<<5, 0, 1, 67, 68>>, <<5, 0, 1, 67, 68, 69, 70>>, <<5, 0, 1>>,
                  <<5, 0, 2, 71, 72, 73>>}
    IN {<<>>} \cup {<<f>> \o c : f \in Firsts, c \in SeqsUpTo(Conts, MaxNotifs)}

BleReadJobs ==
    {[op |-> "ble_read", notifs |-> n, end |-> e, ufail |-> f] :
       n \in Notifications, e \in {"closed", "stall"}, f \in BOOLEAN}

BleJobs == {[op |-> "ble"]}

\* BleDevice::read_data on its own.
BleRead ==
    /\ job.op = "ble_read" /\ out.st = "none"
    /\ out' = ble_read_data(job.notifs, job.end, job.ufail)
    /\ UNCHANGED <<job, ble, pvars, lvars>>

BleList ==
    /\ job.op = "ble"
    /\ \E seen \in SeqsUpTo(Peripherals, 2), fail \in BOOLEAN :
          LET r == ble_list(ble, seen, fail)
          IN ble' = r.ble /\ out' = r.out
    /\ UNCHANGED <<job, pvars, lvars>>

BleConnect ==
    /\ job.op = "ble"
    /\ \E info \in {BleInfo("Nano X 1A", "a1"), BleInfo("Ledger Stax 2B", "a2"),
                    BleInfo("Nano X 9Z", "a1")},
          step \in ConnectSteps, mstep \in MtuSteps, mtu \in {8, 23} :
          /\ step # "ok" => (mstep = "ok" /\ mtu = 23)
          /\ mstep # "ok" => mtu = 23
          /\ LET r == ble_connect(ble, info, step, mstep, mtu)
             IN ble' = r.ble /\ out' = r.out
    /\ UNCHANGED <<job, pvars, lvars>>

\* An exchange on the BleDevice connect returned.
BleExchange ==
    /\ job.op = "ble" /\ ble.dev # NoBleInfo
    /\ \E command \in {<<176, 1>>}, step \in ExchangeSteps,
          notifs \in {<<>>, <<<<5, 0, 0, 0, 2, 65, 66>>>>, <<<<5, 0, 0, 0>>>>,
                      <<<<5, 0, 0, 0, 4, 65, 66>>, <<5, 0, 1, 67, 68, 69, 70>>>>,
                      <<<<5, 0, 0, 0, 4, 65, 66>>, <<5, 0, 1>>>>},
          end \in {"closed", "stall"}, ufail \in BOOLEAN :
          /\ step # "ok" => (notifs = <<>> /\ end = "closed")
          /\ LET r == ble_exchange(ble, command, step, notifs, end, ufail)
             IN ble' = r.ble /\ out' = r.out
    /\ UNCHANGED <<job, pvars, lvars>>

\* ------------------------------------------------- GenericTransport::list
\* What the list of one transport returns.
Found(devs) == [st |-> "Ok", err |-> "none", devs |-> devs]
Failed(e) == [st |-> "Err", err |-> e, devs |-> <<>>]

\* Whether a filter selects a transport.
selects(filters, t) == filters = "Any" \/ filters = t

\* GenericTransport::list with a BLE error returned under every filter.
generic_list_strict(filters, usb, bl, tcp) ==
    LET q1 == IF selects(filters, "Hid") THEN {"Hid"} ELSE {}
        d1 == IF selects(filters, "Hid") THEN usb.devs ELSE <<>>
        q2 == q1 \cup (IF selects(filters, "Ble") THEN {"Ble"} ELSE {})
        d2 == IF selects(filters, "Ble") THEN d1 \o bl.devs ELSE d1
        q3 == q2 \cup (IF selects(filters, "Tcp") THEN {"Tcp"} ELSE {})
        d3 == IF selects(filters, "Tcp") THEN d2 \o tcp.devs ELSE d2
        Ret(st, e, devs, q) == [st |-> st, err |-> e, devices |-> devs, queried |-> q]
    IN IF selects(filters, "Hid") /\ usb.st = "Err" THEN Ret("Err", usb.err, <<>>, q1)
       ELSE IF selects(filters, "Ble") /\ bl.st = "Err"
       THEN Ret("Err", bl.err, <<>>, q2)
       ELSE IF selects(filters, "Tcp") /\ tcp.st = "Err" THEN Ret("Err", tcp.err, <<>>, q3)
       ELSE Ret("Ok", "none", d3, q3)

\* GenericTransport::list: the transports the filter selects are listed in
\* the order USB, BLE, TCP and their devices appended; an error of the USB
\* or TCP list is returned at once, one of the BLE list only unless the
\* filter is Any. queried are the transports whose list was called.
generic_list(filters, usb, bl, tcp) ==
    LET q1 == IF selects(filters, "Hid") THEN {"Hid"} ELSE {}
        d1 == IF selects(filters, "Hid") THEN usb.devs ELSE <<>>
        q2 == q1 \cup (IF selects(filters, "Ble") THEN {"Ble"} ELSE {})
        d2 == IF selects(filters, "Ble") THEN d1 \o bl.devs ELSE d1
        q3 == q2 \cup (IF selects(filters, "Tcp") THEN {"Tcp"} ELSE {})
        d3 == IF selects(filters, "Tcp") THEN d2 \o tcp.devs ELSE d2
        Ret(st, e, devs, q) == [st |-> st, err |-> e, devices |-> devs, queried |-> q]
    IN IF selects(filters, "Hid") /\ usb.st = "Err" THEN Ret("Err", usb.err, <<>>, q1)
       ELSE IF selects(filters, "Ble") /\ bl.st = "Err" /\ filters # "Any"
       THEN Ret("Err", bl.err, <<>>, q2)
       ELSE IF selects(filters, "Tcp") /\ tcp.st = "Err" THEN Ret("Err", tcp.err, <<>>, q3)
       ELSE Ret("Ok", "none", d3, q3)

GenericListJobs ==
    LET Lists(k, e) == {Failed(e)} \cup {Found(d) : d \in SeqsUpTo({k \o "1", k \o "2"}, MaxListed)}
    IN {[op |-> "generic_list", filters |-> f, usb |-> u, bl |-> b, tcp |-> t] :
          f \in {"Any", "Hid", "Tcp", "Ble"}, u \in Lists("usb", "Hid"),
          b \in Lists("ble", "Ble"), t \in Lists("tcp", "Tcp")}

GenericList ==
    /\ job.op = "generic_list" /\ out.st = "none"
    /\ out' = generic_list(job.filters, job.usb, job.bl, job.tcp)
    /\ UNCHANGED <<job, ble, pvars, lvars>>

\* ------------------------------------------------------ the cli's connect
\* connect of the cli: listed are its devices, index the position asked for
\* (from 0), outcome what LedgerProvider::connect would return. devices[index]
\* with index == devices.len() is out of bounds and panics; sent is whether
\* the Connect went to the provider.
cli_connect(listed, index, outcome) ==
    LET Ret(st, k, i, sent) ==
            [st |-> st, err |-> [kind |-> k, index |-> i], sent |-> sent]
    IN IF listed = <<>> THEN Ret("Err", "NoDevices", 0, FALSE)
       ELSE IF index > Len(listed) THEN Ret("Err", "InvalidDeviceIndex", index, FALSE)
       ELSE IF index >= Len(listed) THEN Ret("Panic", "none", 0, FALSE)
       ELSE IF outcome = "ok" THEN Ret("Ok", "none", 0, TRUE)
       ELSE Ret("Err", outcome, 0, TRUE)

CliConnectJobs ==
    {[op |-> "cli_connect", devices |-> d, index |-> i, outcome |-> o] :
       d \in SeqsUpTo({"usb1", "tcp1"}, MaxListed), i \in 0 .. (MaxListed + 2),
       o \in {"ok", "DeviceInUse", "Timeout"}}

CliConnect ==
    /\ job.op = "cli_connect" /\ out.st = "none"
    /\ out' = cli_connect(job.devices, job.index, job.outcome)
    /\ UNCHANGED <<job, ble, pvars, lvars>>

\* ------------------------------------------------------- USB round trip
\* Longest payload written and read back.
MaxApdu == 120

\* What the host reads for a packet the device was sent: the report without
\* the leading 0x00, as written or filled up with zeros to the 64 bytes of
\* a report.
report(packet, pad) ==
    LET b == Tail(packet)
    IN [err |-> "none",
        bytes |-> IF pad THEN b \o [i \in 1 .. (HID_PACKET_LEN - Len(b)) |-> 0] ELSE b]

\* UsbDevice::read on the packets UsbDevice::write makes of apdu.
usb_round_trip(apdu, pad) ==
    LET w == usb_write(apdu, 0)
    IN [st |-> "done", written |-> w,
        read |-> usb_read([k \in DOMAIN w.packets |-> report(w.packets[k], pad)])]

UsbRoundTripJobs ==
    {[op |-> "usb_round_trip", apdu |-> a, pad |-> p] :
       a \in {Fill(n) : n \in 0 .. MaxApdu} \cup {[i \in 1 .. n |-> 0] : n \in 1 .. MaxApdu},
       p \in BOOLEAN}

UsbRoundTrip ==
    /\ job.op = "usb_round_trip" /\ out.st = "none"
    /\ out' = usb_round_trip(job.apdu, job.pad)
    /\ UNCHANGED <<job, ble, pvars, lvars>>

TransportInit ==
    /\ ProviderInit /\ LaunchIdle
    /\ job \in UsbWriteJobs \cup UsbReadJobs \cup UsbListJobs \cup TcpJobs
                \cup BleReadJobs \cup BleJobs \cup GenericListJobs \cup CliConnectJobs
                \cup UsbRoundTripJobs
    /\ out = NoOut /\ ble = BleNew

TransportNext ==
    \/ UsbWrite \/ UsbRead \/ UsbList \/ TcpExchange
    \/ BleRead \/ BleList \/ BleConnect \/ BleExchange
    \/ GenericList \/ CliConnect \/ UsbRoundTrip

TransportSpec == TransportInit /\ [][TransportNext]_vars

\* ====================================================== transport claims
\* The length-prefixed command UsbDevice::write sends.
Prefixed(apdu) == <<Len(apdu) \div 256, Len(apdu) % 256>> \o apdu

\* C23: UsbDevice::write prefixes the command with its length as 2 bytes,
\* big endian, and splits the result into consecutive packets of exactly 59
\* payload bytes, the last one possibly shorter; packet i is 0x00, then
\* 0x01 0x01 0x05, then the index i as 2 bytes big endian (from 0, by 1),
\* then its payload; the payloads in order make up the prefixed command.
C23_UsbChunks ==
    (job.op = "usb_write" /\ out.st = "Ok")
    => LET data == Prefixed(job.apdu)
           P == out.packets
       IN /\ Len(P) = (Len(data) + 58) \div 59
          /\ \A i \in DOMAIN P :
                /\ SubSeq(P[i], 1, 6) = <<0, 1, 1, 5, (i - 1) \div 256, (i - 1) % 256>>
                /\ Len(P[i]) - 6 = IF i < Len(P) THEN 59 ELSE Len(data) - 59 * (Len(P) - 1)
                /\ Len(P[i]) - 6 \in 1 .. 59
          /\ \A j \in DOMAIN data :
                P[((j - 1) \div 59) + 1][6 + ((j - 1) % 59) + 1] = data[j]

\* C23 witness: a command of 200 bytes was written as four packets, three
\* with 59 payload bytes and a last one with 25.
C23_Witness ==
    /\ job.op = "usb_write" /\ Len(job.apdu) = 200 /\ out.st = "Ok"
    /\ Len(out.packets) = 4
    /\ \A i \in 1 .. 3 : Len(out.packets[i]) = 65
    /\ Len(out.packets[4]) = 6 + 25
    /\ SubSeq(out.packets[4], 1, 6) = <<0, 1, 1, 5, 0, 3>>

\* The bytes of the k-th read of the job, and the sequence index in a
\* continuation packet.
Packet(k) == ReadAt(job.reads, k).bytes
SeqIndex(b) == b[4] * 256 + b[5]

\* C24: UsbDevice::read accepts the first packet only with the header
\* 01 01 05 00 00 and the k-th continuation packet only with the header
\* 01 01 05 and the sequence index k; a continuation packet with any other
\* index (repeated, skipped, out of order) makes the read fail with
\* UnexpectedResponse, and no payload is returned.
C24_UsbSequence ==
    (job.op = "usb_read" /\ out.st # "none")
    => /\ out.st = "Ok"
          => /\ SubSeq(Packet(1), 1, 5) = <<1, 1, 5, 0, 0>>
             /\ \A k \in 2 .. out.used :
                   /\ SubSeq(Packet(k), 1, 3) = <<1, 1, 5>>
                   /\ SeqIndex(Packet(k)) = k - 1
       /\ (Len(Packet(1)) >= 7 /\ SubSeq(Packet(1), 1, 5) # <<1, 1, 5, 0, 0>>)
          => out = ReadErr("UnexpectedResponse", 1)
       /\ \A k \in 2 .. out.used :
             (Len(Packet(k)) >= 5 /\ SeqIndex(Packet(k)) # k - 1)
             => /\ out.st = "Err" /\ out.err = "UnexpectedResponse"
                /\ out.val = <<>> /\ out.used = k

\* C24 witness: a response announced 6 bytes, its second packet carried
\* the index 1 and was taken, its third packet repeated the index 1, and
\* the read failed with UnexpectedResponse.
C24_Witness ==
    /\ job.op = "usb_read" /\ Len(job.reads) = 3
    /\ Packet(1) = <<1, 1, 5, 0, 0, 0, 6, 8, 9>>
    /\ Packet(2) = <<1, 1, 5, 0, 1, 6, 7>>
    /\ Packet(3) = <<1, 1, 5, 0, 1, 6, 7>>
    /\ out = ReadErr("UnexpectedResponse", 3)

\* C25: a first read of 0 bytes makes UsbDevice::read return
\* Error::EmptyResponse and a first read of 1 to 6 bytes
\* Error::UnexpectedResponse; of the errors of a request EmptyResponse, and
\* no other, is what the run loop of launch_app retries on.
C25_EmptyOrShort ==
    (job.op = "usb_read" /\ out.st # "none" /\ ReadAt(job.reads, 1).err = "none")
    => /\ Len(Packet(1)) = 0 => out = ReadErr("EmptyResponse", 1)
       /\ Len(Packet(1)) \in 1 .. 6 => out = ReadErr("UnexpectedResponse", 1)
       /\ out.err = "EmptyResponse" <=> Len(Packet(1)) = 0
       /\ out.st = "Err" => (run_reply(out.err) = "retry" <=> Len(Packet(1)) = 0)
       /\ \A r \in RequestResults \cup {"UnexpectedResponse", "Hid"} :
             run_reply(r) = "retry" <=> r = "EmptyResponse"

\* C25 witness: a first read of 3 bytes was returned as UnexpectedResponse,
\* which the run loop does not retry on.
C25_Witness ==
    /\ job.op = "usb_read" /\ Packet(1) = <<1, 1, 5>>
    /\ ReadAt(job.reads, 1).err = "none"
    /\ out = ReadErr("UnexpectedResponse", 1)
    /\ run_reply(out.err) = "fail"

\* C26: Model::from_pid uses only the top byte of the product id: two
\* product ids that differ only in the bottom byte are classified as equal
\* models, so a device listed again under such an id still matches the
\* model reconnect looks for.
C26_TopByteOnly ==
    (job.op = "usb_list" /\ out.st = "done" /\ job.pid \div 256 = job.new_pid \div 256)
    => /\ out.listed[1].model = out.info.model
       /\ out.found = 1

\* C30: TcpDevice::exchange writes the request as its length in 4 bytes,
\* big endian, followed by the request; it reads 4 bytes giving N, then
\* N + 2 bytes, and returns exactly those N + 2 bytes (the body and the two
\* status bytes), without the length; it returns them whenever the write
\* succeeded and the stream holds that many bytes.
C30_TcpFraming ==
    (job.op = "tcp" /\ out.st # "none")
    => LET s == job.stream
           N == s[1] * 16777216 + s[2] * 65536 + s[3] * 256 + s[4]
           Whole == Len(s) >= 4 /\ Len(s) >= 4 + N + 2
       IN /\ ~job.wfail
             => /\ Len(out.sent) = 4 + Len(job.req)
                /\ out.sent[1] = 0 /\ out.sent[2] = 0
                /\ out.sent[3] = Len(job.req) \div 256
                /\ out.sent[4] = Len(job.req) % 256
                /\ SubSeq(out.sent, 5, Len(out.sent)) = job.req
          /\ out.st = "Ok" <=> (~job.wfail /\ Whole)
          /\ out.st = "Ok"
             => /\ Len(out.resp) = N + 2
                /\ out.resp = SubSeq(s, 5, 4 + N + 2)
                /\ out.used = 4 + N + 2

\* C30 witness: a response announcing a body of 1 byte was read from a
\* stream holding more than the frame, and the 3 bytes of body and status
\* were returned after a request of 261 bytes was framed.
C30_Witness ==
    /\ job.op = "tcp" /\ out.st = "Ok"
    /\ SubSeq(job.stream, 1, 4) = <<0, 0, 0, 1>>
    /\ Len(job.stream) > 7
    /\ Len(job.req) > U8Max
    /\ Len(out.resp) = 3

\* C27: every BleDevice::exchange that has subscribed to the notify
\* characteristic has unsubscribed from it when it returns, on success as
\* on failure, so no exchange leaves the subscription active.
C27_AlwaysUnsubscribes ==
    (job.op = "ble" /\ out.st # "none" /\ out.op = "exchange" /\ out.subscribed_here)
    => ~ble.subscribed

\* The payload of the notifications from the k-th on, each continuation
\* taken after its marker and its 2 bytes of sequence.
RECURSIVE Continued(_, _)
Continued(notifs, k) ==
    IF k > Len(notifs) THEN <<>>
    ELSE SubSeq(notifs[k], 4, Len(notifs[k])) \o Continued(notifs, k + 1)

\* C28: a response whose first notification starts with the marker 0x05, 2
\* bytes of sequence and the declared length (its fifth byte, the fourth
\* being 0), whose continuations carry the marker and 2 bytes of sequence,
\* and whose payloads together reach the declared length, is returned by
\* read_data as exactly the first declared-length bytes of those payloads.
C28_Reassembly ==
    (job.op = "ble_read" /\ out.st # "none")
    => LET n == job.notifs
           Declared == n[1][5]
           Payload == SubSeq(n[1], 6, Len(n[1])) \o Continued(n, 2)
       IN (/\ n # <<>> /\ Len(n[1]) >= 5 /\ n[1][1] = 5
           /\ \A k \in 2 .. Len(n) : Len(n[k]) >= 3
           /\ Len(Payload) >= Declared)
          => /\ out.st = "Ok"
             /\ out.val = SubSeq(Payload, 1, Declared)

\* C29: the known peripherals are exactly the devices the latest list that
\* returned a listing has returned (each such list replaces them all);
\* connect returns NoDevices, without a call on any peripheral, exactly when
\* the requested info equals the conn of none of them (so always before any
\* list), and only otherwise goes on to connect.
C29_ConnectFollowsList ==
    job.op = "ble"
    => /\ ble.peripherals = ble.scan
       /\ (out.st # "none" /\ out.op = "connect")
          => LET InScan == \E i \in 1 .. Len(ble.scan) : ble.scan[i].conn = out.info
             IN /\ (out.st = "Err" /\ out.err = "NoDevices") <=> ~InScan
                /\ ~InScan => ~out.touched
                /\ InScan => out.touched
                /\ out.st = "Ok" => (InScan /\ ble.dev = out.info)

\* C29 witness: connect returned NoDevices for the device an earlier connect
\* had reached, because a later list has returned other devices only.
C29_Witness ==
    /\ job.op = "ble" /\ out.st = "Err" /\ out.op = "connect"
    /\ out.err = "NoDevices" /\ ~out.touched
    /\ ble.dev = out.info
    /\ ble.scan # <<>>

\* C31: in the USB, BLE and TCP drivers a response with malformed framing (a
\* wrong header or marker, a wrong sequence index, a short or truncated
\* read) is answered with the UnexpectedResponse error, not with Timeout, a
\* link error or Unknown.
C31_MalformedIsUnexpected ==
    /\ (job.op = "usb_read" /\ out.st = "Err"
        /\ ReadAt(job.reads, out.used).err = "none"
        /\ (out.used > 1 \/ ReadAt(job.reads, 1).bytes # <<>>))
       => out.err = "UnexpectedResponse"
    /\ (job.op = "ble_read" /\ out.st # "none" /\ job.notifs # <<>>
        /\ (Len(job.notifs[1]) < 5 \/ job.notifs[1][1] # 5))
       => (out.st = "Err" /\ out.err = "UnexpectedResponse")
    /\ (job.op = "tcp" /\ out.st # "none" /\ ~job.wfail /\ job.end = "eof"
        /\ job.stream # <<>>
        /\ (Len(job.stream) < 4
            \/ Len(job.stream) < 4 + from_be_bytes32(SubSeq(job.stream, 1, 4)) + 2))
       => (out.st = "Err" /\ out.err = "UnexpectedResponse")

\* C32: GenericTransport::list calls the list of exactly the transports
\* its filter selects, as far as it gets. Under Filters::Any a BLE list
\* that fails does not fail the call: when the USB and TCP lists succeed the
\* result is Ok and holds the USB entries followed by the TCP entries.
\* Under Filters::Ble the error of the BLE list is what the call returns.
C32_BleToleratedUnderAny ==
    (job.op = "generic_list" /\ out.st # "none")
    => /\ out.queried \subseteq (IF job.filters = "Any" THEN {"Hid", "Ble", "Tcp"}
                                 ELSE {job.filters})
       /\ out.st = "Ok"
          => out.queried = (IF job.filters = "Any" THEN {"Hid", "Ble", "Tcp"}
                            ELSE {job.filters})
       /\ (job.filters = "Any" /\ job.bl.st = "Err" /\ job.usb.st = "Ok"
           /\ job.tcp.st = "Ok")
          => (out.st = "Ok" /\ out.devices = job.usb.devs \o job.tcp.devs)
       /\ (job.filters = "Ble" /\ job.bl.st = "Err")
          => (out.st = "Err" /\ out.err = job.bl.err /\ out.queried = {"Ble"})
       /\ (job.filters = "Ble" /\ job.bl.st = "Ok")
          => (out.st = "Ok" /\ out.devices = job.bl.devs)

\* C32 witness: under Filters::Any the BLE list failed and the call
\* returned the two USB entries and the TCP entry.
C32_Witness ==
    /\ job.op = "generic_list" /\ job.filters = "Any" /\ job.bl.st = "Err"
    /\ out.st = "Ok" /\ Len(job.usb.devs) = 2 /\ Len(job.tcp.devs) = 1
    /\ Len(out.devices) = 3

\* C33: connect of the cli on an empty device list fails with NoDevices for
\* every index; on a non-empty list, every index that is not the position
\* of a listed device (index >= number of devices) fails with
\* InvalidDeviceIndex(index), without a panic and without a Connect sent to
\* the provider.
C33_InvalidIndex ==
    (job.op = "cli_connect" /\ out.st # "none")
    => /\ job.devices = <<>>
          => (out.st = "Err" /\ out.err.kind = "NoDevices" /\ ~out.sent)
       /\ (job.devices # <<>> /\ job.index >= Len(job.devices))
          => /\ out.st = "Err"
             /\ out.err = [kind |-> "InvalidDeviceIndex", index |-> job.index]
             /\ ~out.sent

\* C34: when the application info reports an application that is not the
\* target: if it is BOLOS no exit request is sent and the run requests go
\* to the handle of the first connect; otherwise exactly one exit request
\* is sent, its acknowledgement (a non-error reply or the status Ok) drops
\* the handle and starts the reconnect, and the first run request comes
\* only after that reconnect has connected and goes to its handle.
C34_StepOrder ==
    /\ [](issued.exit <= 1)
    /\ [](lpc = "run"
          => /\ issued.app_info = 1
             /\ IF issued.exit = 0
                THEN issued.connect = 1 /\ issued.list = 0
                ELSE issued.connect = 2 /\ issued.list >= 1 /\ rc.stage = "exit")
    /\ [](lpc = "run"
          => /\ opened = {dev.id}
             /\ IF issued.exit = 0 THEN dev = Handle(1, args.info)
                ELSE dev = Handle(2, rc.new_info))
    /\ [][(lpc = "app_info" /\ llast'.op = "app_info" /\ llast'.res = "BOLOS"
           /\ args.app_name # "BOLOS")
          => /\ lpc' = "run"
             /\ dev' = dev /\ opened' = opened
             /\ issued'.exit = 0 /\ issued'.run = 0]_vars
    /\ [][(lpc = "app_info" /\ llast'.op = "app_info"
           /\ llast'.res \in AppNames \ {"BOLOS", args.app_name})
          => /\ lpc' = "exit"
             /\ dev' = dev /\ opened' = opened
             /\ issued'.run = 0]_vars
    /\ [][(lpc = "exit" /\ llast'.op = "exit" /\ llast'.res \in {"Ok", "Status(Ok)"})
          => /\ issued'.exit = 1
             /\ dev' = NoHandle /\ opened' = {}
             /\ lpc' = "reconnect" /\ rc' = Reconnecting("exit")
             /\ issued'.run = 0 /\ issued'.list = 0]_vars
    /\ [][(llast'.op = "run" /\ issued.run = 0 /\ issued'.run = 1)
          => /\ lpc = "run"
             /\ dev \in {Handle(1, args.info), Handle(2, rc.new_info)}
             /\ dev.id \in opened]_vars

\* C34 witness: the exit request was acknowledged, the reconnect listed
\* twice and connected, and the first run request has gone to its handle.
C34_Witness ==
    /\ llast.op = "run" /\ issued.run = 1 /\ issued.exit = 1
    /\ issued.list = 2 /\ issued.connect = 2
    /\ rc.stage = "exit" /\ lpc = "run"
    /\ dev = Handle(2, rc.new_info)

\* C35: when the exchange returns a response longer than the caller's
\* buffer, Device::request returns the InvalidLength error, decodes nothing
\* and leaves the buffer as the encoding of the request left it, every byte
\* beyond the encoded request untouched; a response of at most the buffer's
\* length is copied whole to the head of the buffer, whatever the status
\* interpretation or the decoder then makes of it.
C35_ResponseTooLong ==
    ExchangeReturned
    => LET enc == encode_request(job.m, job.len).bytes
       IN /\ Len(job.bytes) > job.len
             => /\ out.st = "Err" /\ out.err = ErrApdu("InvalidLength")
                /\ out.val = NoApduMsg
                /\ Len(out.buff) = job.len
                /\ SubSeq(out.buff, 1, Len(enc)) = enc
                /\ \A i \in (Len(enc) + 1) .. job.len : out.buff[i] = Untouched
          /\ Len(job.bytes) <= job.len
             => /\ Len(out.buff) = job.len
                /\ SubSeq(out.buff, 1, Len(job.bytes)) = job.bytes
                /\ \A i \in (Len(job.bytes) + 1) .. job.len :
                      out.buff[i] = IF i <= Len(enc) THEN enc[i] ELSE Untouched

\* C35 witness: a response of 257 bytes came back for a buffer of 256 and
\* InvalidLength was returned with the buffer untouched beyond the request.
C35_Witness ==
    /\ ExchangeReturned
    /\ Len(job.bytes) = APDU_BUFF_LEN + 1 /\ job.len = APDU_BUFF_LEN
    /\ out.st = "Err" /\ out.err = ErrApdu("InvalidLength")
    /\ out.buff[6] = Untouched /\ out.buff[APDU_BUFF_LEN] = Untouched

\* The requests sent and not yet handled, in the order the task handles
\* them: the one in handling, then the channel.
Pending == (IF cur = NoMsg THEN <<>> ELSE <<cur>>) \o queue

\* The handle of entry k is still with a caller: held, or in the reply to a
\* connect that has not returned yet.
InHand(k) ==
    \E c \in Callers :
       \/ held[c] = k
       \/ cpc[c] = "connect" /\ rx[c].n > 0 /\ rx[c].msg = RespHandle(k)

\* C36: requests are handled in the order they were sent, so the Close a
\* dropped LedgerHandle has sent is handled before a Connect the caller
\* issues afterwards; a Connect is rejected with DeviceInUse only for an
\* entry whose handle was still with a caller when the Connect was sent
\* (still is, or its Close was sent after the Connect), never for a handle
\* dropped before.
C36_CloseBeforeConnect ==
    /\ [](\A i, j \in DOMAIN Pending : i < j => Pending[i].id < Pending[j].id)
    /\ [][(cur # NoMsg /\ cur' = NoMsg /\ cur.req.type = "Connect"
           /\ last'.resp = RespError("DeviceInUse"))
          => \E k \in Matching(devices, cur.req.conn) :
                /\ is_connected(devices[k]) = "true"
                /\ \/ InHand(k)
                   \/ \E i \in DOMAIN queue :
                         queue[i].req = ReqClose(k) /\ queue[i].id > cur.id]_vars

\* C36 witness: the Close of a dropped handle is in handling, its entry is
\* still in the table and connected, and behind it waits a Connect of the
\* caller for the same connection.
C36_Witness ==
    /\ cur # NoMsg /\ cur.req.type = "Close"
    /\ Has(devices, cur.req.index)
    /\ is_connected(devices[cur.req.index]) = "true"
    /\ ~InHand(cur.req.index)
    /\ queue # <<>>
    /\ queue[1].req = ReqConnect(devices[cur.req.index].info)

\* C37: a Connect the provider answers with an error (DeviceInUse, or the
\* error of the transport's connect) inserts no entry and leaves the index
\* counter as it was; a Connect that succeeds is given the counter's value
\* as its index and advances the counter by one (wrapping), so successful
\* connects get consecutive indices; List, Exchange and Close leave the
\* counter unchanged, List and Exchange the table as well.
C37_FailedConnectConsumesNothing ==
    /\ [][(cur # NoMsg /\ cur' = NoMsg /\ cur.req.type = "Connect"
           /\ last'.resp.kind = "Error")
          => /\ device_index' = device_index
             /\ Keys(devices') \subseteq Keys(devices)
             /\ \A k \in Keys(devices') : devices'[k] = devices[k]]_vars
    /\ [][(cur # NoMsg /\ cur' = NoMsg /\ cur.req.type = "Connect"
           /\ last'.resp.kind # "Error")
          => /\ last'.resp = RespHandle(device_index)
             /\ device_index' = wrapping_add(device_index)
             /\ devices'[device_index] = Dev(cur.req.conn)]_vars
    /\ [][(cur # NoMsg /\ cur' = NoMsg /\ cur.req.type \in {"List", "Req", "Close"})
          => device_index' = device_index]_vars
    /\ [][(cur # NoMsg /\ cur' = NoMsg /\ cur.req.type \in {"List", "Req"})
          => devices' = devices]_vars
    /\ [][device_index' # device_index
          => (cur # NoMsg /\ cur.req.type = "Connect" /\ last'.resp.kind = "Handle")]_vars

\* C37 witness: after a Connect that succeeded, one that the transport
\* failed has been answered with its error; the counter stands at 1 and the
\* table holds the one entry.
C37_Witness ==
    /\ last.msg.req.type = "Connect" /\ last.resp = RespError("Tcp")
    /\ device_index = 1
    /\ Keys(devices) = {0}

C39_UsbRoundTrip ==
    (job.op = "usb_round_trip" /\ out.st # "none")
    => /\ out.written.st = "Ok"
       /\ out.read.st = "Ok"
       /\ out.read.val = job.apdu
       /\ Len(out.read.val) = Len(job.apdu)
       /\ out.read.used = Len(out.written.packets)

\* C39 witness: a payload of zeros that needs three packets, the last one
\* filled up with zeros, was read back whole.
C39_Witness ==
    /\ job.op = "usb_round_trip" /\ job.pad /\ out.st = "done"
    /\ Len(job.apdu) = MaxApdu /\ job.apdu[1] = 0
    /\ Len(out.written.packets) = 3
    /\ out.read.st = "Ok" /\ out.read.val = job.apdu

\* C40: in reconnect an error from a list call is not retried: the list call
\* that fails makes reconnect and launch_app return that error at once, with
\* the handle dropped and no further call, even when scan rounds remain in
\* the budget; a round is counted and the scan goes on only after a list
\* that succeeded without a matching entry.
C40_ListErrorNotRetried ==
    /\ [][(lpc = "reconnect" /\ llast'.op = "list" /\ llast'.res # "ok")
          => /\ lpc' = "done"
             /\ ret' = RetErr(llast'.res)
             /\ dev' = NoHandle /\ opened' = {}
             /\ rc'.i = rc.i
             /\ issued'.list = issued.list + 1]_vars
    /\ [][(lpc = "reconnect" /\ llast'.op = "list")
          => (lpc' = "reconnect"
              <=> /\ llast'.res = "ok"
                  /\ find(llast'.listed, args.info) = 0)]_vars
    /\ [][(lpc = "reconnect" /\ lpc' = "reconnect")
          => /\ rc'.i = rc.i + 1
             /\ rc'.lists = rc.lists + 1
             /\ llast'.op = "list" /\ llast'.res = "ok"]_vars
    /\ [][lpc = "done" => issued' = issued]_vars

\* C40 witness: the first list of a reconnect with a budget of two rounds
\* failed, and launch_app has returned that error after this one list.
C40_Witness ==
    /\ lpc = "done"
    /\ llast.op = "list" /\ llast.res = "Ble"
    /\ ret = RetErr("Ble")
    /\ args.reconnect_timeout_s = MaxBudget
    /\ rc.i = 0 /\ rc.lists = 1
    /\ issued.list = 1

====
